---- MODULE Spec2Model ----
(***************************************************************************)
(* A model of three parts of the winterfell STARK library:                 *)
(*   fri/src/proof.rs                      FriProof, FriProofLayer         *)
(*   prover/.../evaluation_table.rs        ConstraintEvaluationTable,      *)
(*                                         acc_column, get_inv_evaluation  *)
(*   verifier/src/verification.rs          perform_verification            *)
(* The generic base field B is instantiated with the prime field of        *)
(* Modulus elements, E with B (the proof, the table) or with pairs over B  *)
(* (the verifier: B embedded in its quadratic extension); usize values     *)
(* stay far below 2^31 within the bounds.                                  *)
(***************************************************************************)
EXTENDS Integers, Sequences, FiniteSets, TLC

\* ------------------------------------------------------------------- state
\* The FRI proof (fri/src/proof.rs).
VARIABLES
    fri_pc,            \* "start", "built" (a proof exists), "parsed" (consumed)
    proof,             \* the FriProof: layers, remainder, partitioned
    built,             \* what the proof was constructed from
    parsed,            \* what parse_layers returned, and its arguments
    remainder_result   \* what parse_remainder returned

\* The divisor functions get_inv_evaluation and acc_column, applied.
VARIABLES
    div_pc,      \* "off", "ready" (the arguments are drawn), "done", "panicked"
    div_in,      \* the arguments: column, divisor, domain_offset, result
    inv_out,     \* what get_inv_evaluation returned
    acc_out      \* what acc_column left in result

\* The ConstraintEvaluationTable and the TableFragments borrowed from it.
VARIABLES
    tbl_pc,         \* "off", "none", "live", "fragmented", "consumed", "panicked"
    evaluations,    \* the columns: each a length and the cells written so far
    divisors,       \* one ConstraintDivisor per column
    domain_offset,
    trace_length,
    fragments,      \* the TableFragments handed out by fragments()
    num_fragments,  \* the argument of the last call of fragments(), or -1
    writes,         \* how many rows were written through fragments
    by_table,       \* the table had the same rows written by its own update_row
    poly            \* what into_poly returned, and what it read

\* One run of perform_verification (verifier/src/verification.rs).
VARIABLES
    ver_pc,     \* "off", or the step perform_verification is at, or "done"
    channel,    \* what the VerifierChannel and the Air hold: the proof's side
    ver,        \* the local variables of perform_verification assigned so far
    calls,      \* the operations on the channel performed so far, in order
    verdict     \* what perform_verification returned

friVars == <<fri_pc, proof, built, parsed, remainder_result>>
divVars == <<div_pc, div_in, inv_out, acc_out>>
tblVars == <<tbl_pc, evaluations, divisors, domain_offset, trace_length,
             fragments, num_fragments, writes, by_table, poly>>
verVars == <<ver_pc, channel, ver, calls, verdict>>
vars == <<friVars, divVars, tblVars, verVars>>
\* What the steps of one part leave alone.
notFri == <<divVars, tblVars, verVars>>
notDiv == <<friVars, tblVars, verVars>>
notTbl == <<friVars, divVars, verVars>>
notVer == <<friVars, divVars, tblVars>>

\* ------------------------------------------------------------------ bounds
\* The most layers a FRI proof carries.
MaxLayers == 2
\* Domain sizes handed to the FRI proof are 2^0 .. 2^MaxLogDomain.
MaxLogDomain == 3
\* Folding factors are 2^0 .. 2^MaxLogFolding, and 3.
MaxLogFolding == 1
\* The most queries of one FRI layer.
MaxQueries == 2

\* ------------------------------------------------- field and byte codecs
\* The StarkField the generic code is instantiated with: 12289 = 3 * 2^12 + 1.
Modulus == 12289
\* The multiplicative group has a subgroup of order 2^TWO_ADICITY.
TWO_ADICITY == 12
\* A generator of that subgroup: 11 generates the whole group, 1331 = 11^3.
TWO_ADIC_ROOT_OF_UNITY == 1331
\* Number of bytes of one serialized field element (E::ELEMENT_BYTES).
ELEMENT_BYTES == 2
\* The value a byte cannot reach.
BYTE_RANGE == 256

RECURSIVE Pow(_, _)
Pow(base, e) == IF e = 0 THEN 1 ELSE base * Pow(base, e - 1)

\* usize::is_power_of_two
RECURSIVE is_power_of_two(_)
is_power_of_two(n) ==
    IF n <= 0 THEN FALSE
    ELSE IF n = 1 THEN TRUE
    ELSE n % 2 = 0 /\ is_power_of_two(n \div 2)

\* usize::trailing_zeros (64 for 0)
RECURSIVE trailing_zeros(_)
trailing_zeros(n) ==
    IF n = 0 THEN 64
    ELSE IF n % 2 = 1 THEN 0 ELSE 1 + trailing_zeros(n \div 2)

\* usize::next_power_of_two
RECURSIVE next_power_of_two_from(_, _)
next_power_of_two_from(n, p) == IF p >= n THEN p ELSE next_power_of_two_from(n, 2 * p)
next_power_of_two(n) == next_power_of_two_from(n, 1)

\* Field arithmetic of B (and of E = B: no extension).
FAdd(x, y) == (x + y) % Modulus
FSub(x, y) == (x + Modulus - y) % Modulus
FMul(x, y) == (x * y) % Modulus
\* FieldElement::exp, by squaring: the loop over the bits of e from the
\* lowest, with the running square in x and the product so far in result.
\* The product stays 0 once x or result is 0.
RECURSIVE exp_by_squaring(_, _, _)
exp_by_squaring(x, e, result) ==
    IF e = 0 THEN result
    ELSE IF x = 0 \/ result = 0 THEN 0
    ELSE exp_by_squaring(FMul(x, x), e \div 2,
                         IF e % 2 = 1 THEN FMul(result, x) ELSE result)
FExp(x, e) == exp_by_squaring(x, e, 1)
\* FieldElement::inv: x^(Modulus - 2), which takes 0 to 0
FInv(x) == IF x = 0 THEN 0 ELSE FExp(x, Modulus - 2)

\* The extension field E of the verifier: pairs <<a, b>> that stand for
\* a + b * u with u * u = EXT_NON_RESIDUE; E::from(B) embeds a as <<a, 0>>.
EXT_NON_RESIDUE == 11
E_ZERO == <<0, 0>>
E_ONE == <<1, 0>>
E_from(a) == <<a, 0>>
EAdd(x, y) == <<FAdd(x[1], y[1]), FAdd(x[2], y[2])>>
ESub(x, y) == <<FSub(x[1], y[1]), FSub(x[2], y[2])>>
EMul(x, y) ==
    <<FAdd(FMul(x[1], y[1]), FMul(EXT_NON_RESIDUE, FMul(x[2], y[2]))),
      FAdd(FMul(x[1], y[2]), FMul(x[2], y[1]))>>
\* FieldElement::conjugate
conjugate(x) == <<x[1], FSub(0, x[2])>>
\* FieldElement::inv: the conjugate over the norm; takes 0 to 0
EInv(x) ==
    LET norm == FSub(FMul(x[1], x[1]), FMul(EXT_NON_RESIDUE, FMul(x[2], x[2])))
        c == conjugate(x)
    IN  <<FMul(c[1], FInv(norm)), FMul(c[2], FInv(norm))>>
\* Div: multiplication by the inverse
EDiv(x, y) == EMul(x, EInv(y))
RECURSIVE EExp(_, _)
EExp(x, e) ==
    IF e = 0 THEN E_ONE
    ELSE LET h == EExp(x, e \div 2)
         IN  IF e % 2 = 0 THEN EMul(h, h) ELSE EMul(EMul(h, h), x)

\* StarkField::get_root_of_unity(n): a root of unity of order 2^n, 1 <= n
get_root_of_unity(n) == FExp(TWO_ADIC_ROOT_OF_UNITY, Pow(2, TWO_ADICITY - n))

\* math::utils::batch_inversion: the inverses of all values from one field
\* inversion; a value of zero is passed over and its inverse is zero.
RECURSIVE prefix_products(_, _, _)
prefix_products(values, last, acc) ==
    IF values = << >> THEN [last |-> last, result |-> acc]
    ELSE prefix_products(Tail(values),
                         IF Head(values) # 0 THEN FMul(last, Head(values)) ELSE last,
                         Append(acc, last))
RECURSIVE back_substitute(_, _, _, _)
back_substitute(values, result, last, i) ==
    IF i = 0 THEN result
    ELSE IF values[i] = 0
    THEN back_substitute(values, [result EXCEPT ![i] = 0], last, i - 1)
    ELSE back_substitute(values, [result EXCEPT ![i] = FMul(@, last)],
                         FMul(last, values[i]), i - 1)
\* Longer inputs are inverted in batches, one half after the other.
INVERSION_BATCH_SIZE == 4
RECURSIVE batch_inversion(_)
batch_inversion(values) ==
    IF Len(values) > INVERSION_BATCH_SIZE
    THEN LET h == Len(values) \div 2
         IN  batch_inversion(SubSeq(values, 1, h))
                \o batch_inversion(SubSeq(values, h + 1, Len(values)))
    ELSE LET p == prefix_products(values, 1, << >>)
         IN  back_substitute(values, p.result, FInv(p.last), Len(values))

RECURSIVE Flatten(_)
Flatten(ss) == IF ss = << >> THEN << >> ELSE Head(ss) \o Flatten(Tail(ss))


\* E::elements_as_bytes for one element: little-endian, ELEMENT_BYTES wide.
element_as_bytes(e) ==
    [k \in 1..ELEMENT_BYTES |-> (e \div Pow(BYTE_RANGE, k - 1)) % BYTE_RANGE]

\* E::elements_as_bytes: the elements' bytes, one element after the other.
elements_as_bytes(elements) ==
    Flatten([k \in 1..Len(elements) |-> element_as_bytes(elements[k])])

RECURSIVE bytes_as_element(_)
bytes_as_element(bytes) ==
    IF bytes = << >> THEN 0
    ELSE Head(bytes) + BYTE_RANGE * bytes_as_element(Tail(bytes))

\* math::utils::read_elements_into_vec: fails unless the bytes divide into
\* whole elements; otherwise reinterprets each group of ELEMENT_BYTES bytes.
read_elements_into_vec(bytes) ==
    IF Len(bytes) % ELEMENT_BYTES # 0
    THEN [ok |-> FALSE, elements |-> << >>]
    ELSE [ok |-> TRUE,
          elements |-> [k \in 1..(Len(bytes) \div ELEMENT_BYTES) |->
              bytes_as_element(SubSeq(bytes, (k - 1) * ELEMENT_BYTES + 1,
                                      k * ELEMENT_BYTES))]]

\* H::hash_elements: a digest of one byte.
RECURSIVE hash_elements(_)
hash_elements(elements) ==
    IF elements = << >> THEN 7
    ELSE (31 * hash_elements(Tail(elements)) + Head(elements) + 1) % BYTE_RANGE

\* BatchMerkleProof::serialize_nodes: the number of node vectors, then each
\* vector as its length followed by its digests.
serialize_nodes(nodes) ==
    <<Len(nodes)>> \o
    Flatten([k \in 1..Len(nodes) |-> <<Len(nodes[k])>> \o nodes[k]])

RECURSIVE read_node_vectors(_, _, _)
read_node_vectors(bytes, count, acc) ==
    IF count = 0
    THEN [ok |-> bytes = << >>, nodes |-> acc]
    ELSE IF bytes = << >> \/ Len(bytes) < 1 + Head(bytes)
    THEN [ok |-> FALSE, nodes |-> acc]
    ELSE read_node_vectors(SubSeq(bytes, 2 + Head(bytes), Len(bytes)),
                           count - 1,
                           Append(acc, SubSeq(bytes, 2, 1 + Head(bytes))))

\* BatchMerkleProof::deserialize(node_bytes, leaves, depth)
deserialize(node_bytes, leaves, depth) ==
    IF node_bytes = << >>
    THEN [ok |-> FALSE, proof |-> [leaves |-> leaves, nodes |-> << >>, depth |-> depth]]
    ELSE LET r == read_node_vectors(Tail(node_bytes), Head(node_bytes), << >>)
         IN  [ok |-> r.ok,
              proof |-> [leaves |-> leaves, nodes |-> r.nodes, depth |-> depth]]

\* ------------------------------------------------------ results and errors
NoResult == [tag |-> "None", a |-> 0, b |-> 0]
Ok == [tag |-> "Ok", a |-> 0, b |-> 0]
Panic == [tag |-> "Panic", a |-> 0, b |-> 0]
\* ProverError::MismatchedConstraintPolynomialDegree(expected, actual)
MismatchedConstraintPolynomialDegree(expected, actual) ==
    [tag |-> "MismatchedConstraintPolynomialDegree", a |-> expected, b |-> actual]
LayerDeserializationError(layer_depth) ==
    [tag |-> "LayerDeserializationError", a |-> layer_depth, b |-> 0]
InvalidRemainderDomain(got, want) ==
    [tag |-> "InvalidRemainderDomain", a |-> got, b |-> want]
RemainderDeserializationError ==
    [tag |-> "RemainderDeserializationError", a |-> 0, b |-> 0]

\* VerifierError::InconsistentOodConstraintEvaluations
InconsistentOodConstraintEvaluations ==
    [tag |-> "InconsistentOodConstraintEvaluations", a |-> 0, b |-> 0]
\* The errors of the channel's authenticated reads.
TraceQueryDoesNotMatchCommitment ==
    [tag |-> "TraceQueryDoesNotMatchCommitment", a |-> 0, b |-> 0]
ConstraintQueryDoesNotMatchCommitment ==
    [tag |-> "ConstraintQueryDoesNotMatchCommitment", a |-> 0, b |-> 0]
\* An error of fri::verify, numbered.
FriError(code) == [tag |-> "FriError", a |-> code, b |-> 0]
\* VerifierError::FriVerificationFailed(inner)
FriVerificationFailed(inner) ==
    [tag |-> "FriVerificationFailed", a |-> inner.a, b |-> 0]

\* ------------------------------------------------------------- fri/proof.rs
\* math::utils::log2, which asserts that n is a power of two; the callers
\* below test is_power_of_two(n) first and panic where log2 would.
log2(n) == trailing_zeros(n)

\* A FriProofLayer::new that packs the query groups last to first.
FriProofLayer_new_reversed(query_values, nodes) ==
    [ok |-> query_values # << >>,
     values |-> Flatten([q \in 1..Len(query_values) |->
                   elements_as_bytes(query_values[Len(query_values) + 1 - q])]),
     paths |-> serialize_nodes(nodes)]

\* FriProofLayer::new(query_values, merkle_proof): query_values is a list of
\* groups of N elements, nodes are the internal nodes of the batch proof.
FriProofLayer_new(query_values, nodes) ==
    IF query_values = << >>
    THEN [ok |-> FALSE, values |-> << >>, paths |-> << >>]
    ELSE [ok |-> TRUE,
          values |-> Flatten([q \in 1..Len(query_values) |->
                                 elements_as_bytes(query_values[q])]),
          paths |-> serialize_nodes(nodes)]

\* FriProof::new(layers, remainder, partitioned)
FriProof_new(new_layers, remainder_elements, is_partitioned) ==
    [layers |-> new_layers,
     remainder |-> elements_as_bytes(remainder_elements),
     partitioned |-> is_partitioned]

\* The loop of FriProofLayer::parse over values.chunks(num_query_bytes):
\* the elements of every query, and the hash of every query.
parse_queries(values, num_query_bytes, num_queries) ==
    [q \in 1..num_queries |->
        read_elements_into_vec(
            SubSeq(values, (q - 1) * num_query_bytes + 1, q * num_query_bytes))]

\* FriProofLayer::parse(self, layer_depth, domain_size, folding_factor)
FriProofLayer_parse(layer, layer_depth, layer_domain_size, ff) ==
    LET num_query_bytes == ELEMENT_BYTES * ff
        num_queries == Len(layer.values) \div num_query_bytes
        qe == parse_queries(layer.values, num_query_bytes, num_queries)
        query_values == Flatten([q \in 1..num_queries |-> qe[q].elements])
        hashed_queries == [q \in 1..num_queries |-> hash_elements(qe[q].elements)]
        none == [leaves |-> << >>, nodes |-> << >>, depth |-> 0]
    IN  IF layer.values = << >> \/ layer.paths = << >>
        THEN [res |-> Panic, qv |-> << >>, mp |-> none]
        ELSE IF Len(layer.values) % num_query_bytes # 0
        THEN [res |-> LayerDeserializationError(layer_depth), qv |-> << >>, mp |-> none]
        ELSE IF \E q \in 1..num_queries : ~qe[q].ok
        THEN [res |-> LayerDeserializationError(layer_depth), qv |-> << >>, mp |-> none]
        ELSE IF ~is_power_of_two(layer_domain_size)
        THEN [res |-> Panic, qv |-> << >>, mp |-> none]
        ELSE LET d == deserialize(layer.paths, hashed_queries, log2(layer_domain_size))
             IN  IF ~d.ok
                 THEN [res |-> LayerDeserializationError(layer_depth),
                       qv |-> << >>, mp |-> none]
                 ELSE [res |-> Ok, qv |-> query_values, mp |-> d.proof]

\* A count of remainder elements that rounds up instead of down.
count_remainder_elements_ceil(remainder_bytes) ==
    (Len(remainder_bytes) + ELEMENT_BYTES - 1) \div ELEMENT_BYTES

\* parse_layers, line 64: the number of remainder elements.
count_remainder_elements(remainder_bytes) == Len(remainder_bytes) \div ELEMENT_BYTES

\* A remainder check that reports (expected, actual) instead of (actual, expected).
check_remainder_domain_swapped(final_domain_size, remainder_elements) ==
    IF final_domain_size # remainder_elements
    THEN InvalidRemainderDomain(final_domain_size, remainder_elements)
    ELSE Ok

\* parse_layers, lines 77-85: the remaining domain size against the remainder.
check_remainder_domain(final_domain_size, remainder_elements) ==
    IF final_domain_size # remainder_elements
    THEN InvalidRemainderDomain(remainder_elements, final_domain_size)
    ELSE Ok

\* A loop that does not stop at a failing layer: it parses the layers after it
\* and reports the last failure.
RECURSIVE parse_layers_loop_no_stop(_, _, _, _, _, _, _)
parse_layers_loop_no_stop(rest, i, cur_domain_size, ff, queries, proofs, domains) ==
    IF rest = << >>
    THEN [res |-> Ok, domain_size |-> cur_domain_size, layer_queries |-> queries,
          layer_proofs |-> proofs, domains |-> domains]
    ELSE LET next_domain_size == cur_domain_size \div ff
             p == FriProofLayer_parse(Head(rest), i, next_domain_size, ff)
             r == parse_layers_loop_no_stop(Tail(rest), i + 1, next_domain_size, ff,
                      Append(queries, p.qv), Append(proofs, p.mp),
                      Append(domains, next_domain_size))
         IN  IF p.res # Ok /\ r.res = Ok THEN [r EXCEPT !.res = p.res] ELSE r

\* parse_layers, lines 70-75: one iteration per layer, in layer order, stopping
\* at the first layer whose parse does not return Ok. domains records the
\* domain size every parsed layer was handed.
RECURSIVE parse_layers_loop(_, _, _, _, _, _, _)
parse_layers_loop(rest, i, cur_domain_size, ff, queries, proofs, domains) ==
    IF rest = << >>
    THEN [res |-> Ok, domain_size |-> cur_domain_size, layer_queries |-> queries,
          layer_proofs |-> proofs, domains |-> domains]
    ELSE LET next_domain_size == cur_domain_size \div ff
             p == FriProofLayer_parse(Head(rest), i, next_domain_size, ff)
         IN  IF p.res # Ok
             THEN [res |-> p.res, domain_size |-> next_domain_size,
                   layer_queries |-> queries, layer_proofs |-> proofs,
                   domains |-> Append(domains, next_domain_size)]
             ELSE parse_layers_loop(Tail(rest), i + 1, next_domain_size, ff,
                                    Append(queries, p.qv), Append(proofs, p.mp),
                                    Append(domains, next_domain_size))

\* FriProof::parse_layers(self, domain_size, folding_factor)
parse_layers(self, initial_domain_size, ff) ==
    IF ~is_power_of_two(initial_domain_size) \/ ~is_power_of_two(ff)
    THEN [res |-> Panic, domain_size |-> initial_domain_size,
          layer_queries |-> << >>, layer_proofs |-> << >>, domains |-> << >>,
          checked |-> FALSE]
    ELSE LET remainder_elements == count_remainder_elements(self.remainder)
             l == parse_layers_loop(self.layers, 0, initial_domain_size, ff,
                                    << >>, << >>, << >>)
         IN  IF l.res # Ok
             THEN [res |-> l.res, domain_size |-> l.domain_size,
                   layer_queries |-> << >>, layer_proofs |-> << >>,
                   domains |-> l.domains, checked |-> FALSE]
             ELSE LET c == check_remainder_domain(l.domain_size, remainder_elements)
                  IN  \* an Err carries no vectors
                      [res |-> c, domain_size |-> l.domain_size,
                       layer_queries |-> IF c = Ok THEN l.layer_queries ELSE << >>,
                       layer_proofs |-> IF c = Ok THEN l.layer_proofs ELSE << >>,
                       domains |-> l.domains, checked |-> TRUE]

\* FriProof::parse_remainder(&self)
parse_remainder(self) ==
    LET r == read_elements_into_vec(self.remainder)
    IN  IF r.ok THEN [res |-> Ok, remainder |-> r.elements]
        ELSE [res |-> RemainderDeserializationError, remainder |-> << >>]

\* ------------------------------------------------- the FRI proof, as state
DomainSizes == {Pow(2, k) : k \in 0..MaxLogDomain}
FoldingFactors == {Pow(2, k) : k \in 0..MaxLogFolding} \cup {3}
\* The domain sizes a caller may hand to parse_layers: one is no power of two.
ParseDomainSizes == DomainSizes \cup {Pow(2, MaxLogDomain) + 1}

\* The field elements the prover's layers and remainder hold.
QueryElement(l, q, k) == (97 * l + 257 * q + 1000 * k + 5) % Modulus
RemainderElement(k) == (300 * k + 1) % Modulus
MerkleNodes(l, nq) == [q \in 1..nq |-> <<(16 * l + q) % BYTE_RANGE>>]

NoProof == [layers |-> << >>, remainder |-> << >>, partitioned |-> FALSE]
NotBuilt ==
    [query_values |-> << >>, remainder |-> << >>, domain_size |-> 0,
     folding_factor |-> 0, honest |-> NoProof]
NotParsed ==
    [res |-> NoResult, domain_size |-> 0, layer_queries |-> << >>,
     layer_proofs |-> << >>, domains |-> << >>, checked |-> FALSE,
     arg_domain_size |-> 0, arg_folding_factor |-> 0]

FriInit ==
    /\ fri_pc = "start"
    /\ proof = NoProof
    /\ built = NotBuilt
    /\ parsed = NotParsed
    /\ remainder_result = [res |-> NoResult, remainder |-> << >>]

\* The prover builds a proof of L layers: FriProofLayer::new for every layer,
\* then FriProof::new. The remainder holds domain_size / folding_factor^L
\* elements (usize division).
FriNew(L, ff, ds, nq, is_partitioned) ==
    /\ fri_pc = "start"
    /\ LET qvs == [l \in 1..L |-> [q \in 1..nq |-> [k \in 1..ff |->
                      QueryElement(l, q, k)]]]
           rem == [k \in 1..(ds \div Pow(ff, L)) |-> RemainderElement(k)]
           ls == [l \in 1..L |-> FriProofLayer_new(qvs[l], MerkleNodes(l, nq))]
           p == FriProof_new([l \in 1..L |->
                                 [values |-> ls[l].values, paths |-> ls[l].paths]],
                             rem, is_partitioned)
       IN  /\ \A l \in 1..L : ls[l].ok
           /\ proof' = p
           /\ built' = [query_values |-> qvs, remainder |-> rem, domain_size |-> ds,
                        folding_factor |-> ff, honest |-> p]
    /\ fri_pc' = "built"
    /\ UNCHANGED <<parsed, remainder_result, notFri>>

\* The proof travels as bytes (FriProof derives Deserialize): what reaches the
\* verifier may differ from what was built. A layer loses the last byte of
\* its values ...
TruncateLayerValues(l) ==
    /\ fri_pc = "built"
    /\ l \in 1..Len(proof.layers)
    /\ proof.layers[l] = built.honest.layers[l]
    /\ proof' = [proof EXCEPT !.layers[l].values =
                    SubSeq(@, 1, Len(@) - 1)]
    /\ UNCHANGED <<fri_pc, built, parsed, remainder_result, notFri>>

\* ... or the last byte of its Merkle paths ...
TruncateLayerPaths(l) ==
    /\ fri_pc = "built"
    /\ l \in 1..Len(proof.layers)
    /\ proof.layers[l] = built.honest.layers[l]
    /\ proof' = [proof EXCEPT !.layers[l].paths =
                    SubSeq(@, 1, Len(@) - 1)]
    /\ UNCHANGED <<fri_pc, built, parsed, remainder_result, notFri>>

\* ... or the remainder gains a byte (at most one element's worth).
ExtendRemainder ==
    /\ fri_pc = "built"
    /\ Len(proof.remainder) < Len(built.honest.remainder) + ELEMENT_BYTES
    /\ proof' = [proof EXCEPT !.remainder = Append(@, 0)]
    /\ UNCHANGED <<fri_pc, built, parsed, remainder_result, notFri>>

ParseRemainder ==
    /\ fri_pc = "built"
    /\ remainder_result' = parse_remainder(proof)
    /\ UNCHANGED <<fri_pc, proof, built, parsed, notFri>>

\* parse_layers consumes the proof. The folding factor is the verifier's
\* option, the one the prover built the layers with.
ParseLayers(ds) ==
    /\ fri_pc = "built"
    /\ parsed' = [arg_domain_size |-> ds, arg_folding_factor |-> built.folding_factor]
                 @@ parse_layers(proof, ds, built.folding_factor)
    /\ fri_pc' = "parsed"
    /\ UNCHANGED <<proof, built, remainder_result, notFri>>

FriNext ==
    \/ \E L \in 0..MaxLayers, ff \in FoldingFactors, ds \in DomainSizes,
          nq \in 1..MaxQueries, is_partitioned \in BOOLEAN :
            FriNew(L, ff, ds, nq, is_partitioned)
    \/ \E l \in 1..MaxLayers : TruncateLayerValues(l)
    \/ \E l \in 1..MaxLayers : TruncateLayerPaths(l)
    \/ ExtendRemainder
    \/ ParseRemainder
    \/ \E ds \in ParseDomainSizes : ParseLayers(ds)

\* ------------------------------------------------ claims on the FRI proof
\* domain_size after it was divided by folding_factor once per layer
RECURSIVE ResidualDomain(_, _, _)
ResidualDomain(ds, ff, L) ==
    IF L = 0 THEN ds ELSE ResidualDomain(ds \div ff, ff, L - 1)

NumLayers == Len(proof.layers)
ArgsArePowersOfTwo ==
    is_power_of_two(parsed.arg_domain_size) /\ is_power_of_two(parsed.arg_folding_factor)
\* Layer l (1-based; the code's index is l - 1) parsed on its own, at the
\* domain size parse_layers hands it.
LayerOutcome(l) ==
    FriProofLayer_parse(proof.layers[l], l - 1,
        ResidualDomain(parsed.arg_domain_size, parsed.arg_folding_factor, l),
        parsed.arg_folding_factor).res
EveryLayerParses == \A l \in 1..NumLayers : LayerOutcome(l) = Ok
ValuesMisaligned(l) ==
    Len(proof.layers[l].values) % (ELEMENT_BYTES * parsed.arg_folding_factor) # 0
RemainderElements == Len(proof.remainder) \div ELEMENT_BYTES
ResidualOfProof ==
    ResidualDomain(parsed.arg_domain_size, parsed.arg_folding_factor, NumLayers)

\* C1: a proof built by FriProofLayer::new and FriProof::new from non-empty
\* lists of folding_factor-sized groups, with domain_size / folding_factor^L
\* remainder elements (folding_factor^L dividing domain_size), parsed with the
\* same domain size and folding factor, gives Ok and exactly L query vectors,
\* the l-th being the concatenation of layer l's groups in query order; and
\* parse_remainder gives back the remainder elements.
C1_RoundTrip ==
    /\ (/\ fri_pc = "parsed"
        /\ proof = built.honest
        /\ parsed.arg_domain_size = built.domain_size
        /\ is_power_of_two(built.folding_factor)
        /\ Pow(built.folding_factor, NumLayers) <= built.domain_size)
       => /\ parsed.res = Ok
          /\ Len(parsed.layer_queries) = Len(built.query_values)
          /\ Len(parsed.layer_proofs) = Len(built.query_values)
          /\ \A l \in 1..Len(built.query_values) :
                parsed.layer_queries[l] = Flatten(built.query_values[l])
    /\ (/\ fri_pc # "start"
        /\ proof = built.honest
        /\ remainder_result.res # NoResult)
       => remainder_result = [res |-> Ok, remainder |-> built.remainder]

C1_Witness ==
    /\ fri_pc = "parsed"
    /\ proof = built.honest
    /\ parsed.arg_domain_size = built.domain_size
    /\ built.folding_factor = 2
    /\ NumLayers = 2
    /\ Len(built.query_values[1]) = 2
    /\ Len(built.remainder) = 2
    /\ parsed.res = Ok
    /\ remainder_result.res = Ok

\* C2: when every layer parses, parse_layers returns Ok exactly if the
\* residual domain size equals remainder.len() / ELEMENT_BYTES, and otherwise
\* InvalidRemainderDomain(remainder elements, residual domain size).
C2_RemainderCheck ==
    (fri_pc = "parsed" /\ ArgsArePowersOfTwo /\ EveryLayerParses)
    => /\ (parsed.res = Ok) <=> (ResidualOfProof = RemainderElements)
       /\ ResidualOfProof # RemainderElements
          => parsed.res = InvalidRemainderDomain(RemainderElements, ResidualOfProof)

C2_Witness ==
    /\ fri_pc = "parsed"
    /\ ArgsArePowersOfTwo
    /\ NumLayers = 2
    /\ EveryLayerParses
    /\ parsed.res.tag = "InvalidRemainderDomain"
    /\ parsed.res.a = 2
    /\ parsed.res.b = 1

\* C3 as claimed: an accepted proof has a remainder of exactly
\* D_L * ELEMENT_BYTES bytes.
C3_ExactRemainderBytes ==
    (fri_pc = "parsed" /\ parsed.res = Ok)
    => Len(proof.remainder) = ResidualOfProof * ELEMENT_BYTES

\* C3 as amended: an accepted proof has a remainder of at least
\* D_L * ELEMENT_BYTES and fewer than (D_L + 1) * ELEMENT_BYTES bytes.
C3_RemainderBytesRounded ==
    (fri_pc = "parsed" /\ parsed.res = Ok)
    => /\ ResidualOfProof * ELEMENT_BYTES <= Len(proof.remainder)
       /\ Len(proof.remainder) < (ResidualOfProof + 1) * ELEMENT_BYTES

C3_Witness ==
    /\ fri_pc = "parsed"
    /\ parsed.res = Ok
    /\ NumLayers >= 1
    /\ Len(proof.remainder) % ELEMENT_BYTES # 0

\* C4: a layer whose values do not divide into whole queries fails with
\* LayerDeserializationError(its index); parse_layers returns the outcome of
\* the lowest-index layer that fails, has parsed no layer after it, and has
\* not made the remainder check.
FailingLayers == {l \in 1..NumLayers : LayerOutcome(l) # Ok}
FirstFailingLayer == CHOOSE l \in FailingLayers : \A m \in FailingLayers : l <= m

C4_ShortCircuit ==
    (fri_pc = "parsed" /\ ArgsArePowersOfTwo)
    => /\ \A l \in 1..NumLayers :
             ValuesMisaligned(l) => LayerOutcome(l) = LayerDeserializationError(l - 1)
       /\ FailingLayers # {}
          => /\ parsed.res = LayerOutcome(FirstFailingLayer)
             /\ Len(parsed.domains) = FirstFailingLayer
             /\ ~parsed.checked
             /\ parsed.res.tag # "InvalidRemainderDomain"
       /\ parsed.res.tag = "LayerDeserializationError"
          => /\ FailingLayers # {}
             /\ parsed.res.a = FirstFailingLayer - 1

C4_Witness ==
    /\ fri_pc = "parsed"
    /\ ArgsArePowersOfTwo
    /\ NumLayers = 2
    /\ ValuesMisaligned(1)
    /\ ValuesMisaligned(2)
    /\ ResidualOfProof # RemainderElements
    /\ parsed.res = LayerDeserializationError(0)

\* A second case of C4: the first layer parses and the second does not.
C4_WitnessSecondLayer ==
    /\ fri_pc = "parsed"
    /\ NumLayers = 2
    /\ ~ValuesMisaligned(1)
    /\ ValuesMisaligned(2)
    /\ parsed.res = LayerDeserializationError(1)

\* C5 as claimed: called with powers of two, every domain size a layer is
\* parsed at, and the residual domain size, is a power of two.
C5_DomainsArePowersOfTwo ==
    (fri_pc = "parsed" /\ ArgsArePowersOfTwo)
    => /\ \A k \in 1..Len(parsed.domains) : is_power_of_two(parsed.domains[k])
       /\ is_power_of_two(parsed.domain_size)

\* ------------------------------------- evaluation_table.rs: the divisors
\* The smallest vector the concurrent build splits across threads.
MIN_CONCURRENT_SIZE == 1024

\* A ConstraintDivisor: numerator is a list of (degree, constant) terms
\* standing for x^degree - constant, exclude a list of exclusion points.
Divisor(terms, exclusions) == [numerator |-> terms, exclude |-> exclusions]

\* x, x * g, x * g^2, ...: n values appended to acc, each the one before
\* times g (x *= g); the second half of the values is taken from x * g^h.
RECURSIVE power_series(_, _, _, _)
power_series(x, g, n, acc) ==
    IF n = 0 THEN acc
    ELSE IF n = 1 THEN Append(acc, x)
    ELSE LET h == n \div 2
         IN  acc \o power_series(x, g, h, << >>)
                 \o power_series(FMul(x, FExp(g, h)), g, n - h, << >>)

\* The chunks of slice.chunks_mut(size) for a slice of len elements, as
\* (start, length) pairs in order; the last chunk may be shorter.
chunks(len, size) ==
    [k \in 1..((len + size - 1) \div size) |->
        [start |-> (k - 1) * size,
         len |-> IF k * size <= len THEN size ELSE len - (k - 1) * size]]

\* A get_inv_evaluation that steps by g instead of g^a.
get_inv_evaluation_plain_g(divisor, domain_size, offset, concurrent, num_threads) ==
    LET a == divisor.numerator[1][1]
        b == divisor.numerator[1][2]
        n == domain_size \div a
        g == get_root_of_unity(trailing_zeros(domain_size))
        xs == power_series(FExp(offset, a), g, n, << >>)
    IN  batch_inversion([k \in 1..n |-> FSub(xs[k], b)])

\* get_inv_evaluation(divisor, domain_size, offset): the inverses of
\* x^a - b over the first domain_size / a points of the domain. concurrent is
\* the build's feature, num_threads is rayon::current_num_threads().
get_inv_evaluation(divisor, domain_size, offset, concurrent, num_threads) ==
    LET a == divisor.numerator[1][1]
        b == divisor.numerator[1][2]
        n == domain_size \div a
        g == FExp(get_root_of_unity(trailing_zeros(domain_size)), a)
        evals ==
            IF concurrent /\ n >= MIN_CONCURRENT_SIZE
            THEN LET batch_size == n \div next_power_of_two(num_threads)
                     cs == chunks(n, batch_size)
                 IN  Flatten([k \in 1..Len(cs) |->
                        LET xs == power_series(
                                      FMul(FExp(offset, a), FExp(g, cs[k].start)),
                                      g, cs[k].len, << >>)
                        IN  [j \in 1..cs[k].len |-> FSub(xs[j], b)]])
            ELSE LET xs == power_series(FExp(offset, a), g, n, << >>)
                 IN  [k \in 1..n |-> FSub(xs[k], b)]
    IN  batch_inversion(evals)

Min(x, y) == IF x <= y THEN x ELSE y

\* The sequential transition loop of an acc_column that multiplies x by g
\* before it takes x - b.
acc_transition_sequential_late(column, z, b, g, offset, result) ==
    LET m == Min(Len(result), Len(column))
        xs == power_series(FMul(offset, g), g, m, << >>)
    IN  [i \in 1..Len(result) |->
            IF i <= m
            THEN FAdd(result[i],
                      FMul(column[i], FMul(z[((i - 1) % Len(z)) + 1], FSub(xs[i], b))))
            ELSE result[i]]

\* acc_column, lines 329-338: the sequential loop of the transition case.
acc_transition_sequential(column, z, b, g, offset, result) ==
    LET m == Min(Len(result), Len(column))
        xs == power_series(offset, g, m, << >>)
    IN  [i \in 1..Len(result) |->
            IF i <= m
            THEN FAdd(result[i],
                      FMul(column[i], FMul(z[((i - 1) % Len(z)) + 1], FSub(xs[i], b))))
            ELSE result[i]]

\* acc_column, lines 312-326: the transition case in batches. Within a batch
\* the index i counts from the start of the batch. A batch stops at the first
\* cell whose column index is past the end of the column (line 324 panics
\* before it writes); the cells before it, and the other batches' cells up to
\* their own such index, are updated.
acc_transition_concurrent(column, z, b, g, offset, result, num_threads) ==
    LET batch_size == Len(result) \div next_power_of_two(num_threads)
        cs == chunks(Len(result), batch_size)
    IN  Flatten([k \in 1..Len(cs) |->
            LET batch_offset == cs[k].start
                xs == power_series(FMul(offset, FExp(g, batch_offset)),
                                   g, cs[k].len, << >>)
            IN  [i \in 1..cs[k].len |->
                    IF batch_offset + i <= Len(column)
                    THEN FAdd(result[batch_offset + i],
                              FMul(column[batch_offset + i],
                                   FMul(z[((i - 1) % Len(z)) + 1], FSub(xs[i], b))))
                    ELSE result[batch_offset + i]]])

\* acc_column, lines 281-299: the boundary case; the sequential loop and the
\* parallel iterator visit the same (index, result, column) triples.
acc_boundary(column, z, result) ==
    LET m == Min(Len(result), Len(column))
    IN  [i \in 1..Len(result) |->
            IF i <= m
            THEN FAdd(result[i], FMul(column[i], z[((i - 1) % Len(z)) + 1]))
            ELSE result[i]]

\* acc_column(column, divisor, offset, result): ok is FALSE where the
\* code panics (an assert, a remainder by zero, an index out of bounds);
\* result is then what the panic leaves in the caller's slice.
acc_column(column, divisor, offset, result, concurrent, num_threads) ==
    IF Len(divisor.numerator) # 1 \/ Len(divisor.exclude) > 1
    THEN [ok |-> FALSE, result |-> result]
    ELSE IF divisor.numerator[1][1] = 0
    THEN [ok |-> FALSE, result |-> result]
    ELSE LET domain_size == Len(column)
             z == get_inv_evaluation(divisor, domain_size, offset,
                                     concurrent, num_threads)
             in_batches == concurrent /\ Len(result) >= MIN_CONCURRENT_SIZE
         IN  IF Len(z) = 0 /\ Min(Len(result), Len(column)) > 0
             THEN [ok |-> FALSE, result |-> result]
             ELSE IF divisor.exclude = << >>
             THEN [ok |-> TRUE, result |-> acc_boundary(column, z, result)]
             ELSE LET g == get_root_of_unity(trailing_zeros(domain_size))
                      b == divisor.exclude[1]
                  IN  IF in_batches
                      THEN [ok |-> Len(column) >= Len(result),
                            result |-> acc_transition_concurrent(column, z, b, g,
                                               offset, result, num_threads)]
                      ELSE [ok |-> TRUE,
                            result |-> acc_transition_sequential(column, z, b, g,
                                               offset, result)]

\* --------------------------------- evaluation_table.rs: the table
\* The smallest fragment fragments() hands out.
MIN_FRAGMENT_SIZE == 256

\* utils::uninit_vector(n): a vector of n cells, none of them written. cells
\* maps the (0-based) indices written so far to their values.
uninit_vector(n) == [len |-> n, cells |-> << >>]
IsWritten(column, i) == i \in DOMAIN column.cells
\* column[i] = value
WriteCell(column, i, value) ==
    [column EXCEPT !.cells =
        [k \in (DOMAIN column.cells) \cup {i} |->
            IF k = i THEN value ELSE column.cells[k]]]

\* ConstraintEvaluationTable::new (release build)
Table_new(num_rows, divs, offset, trace_len) ==
    [evaluations |-> [j \in 1..Len(divs) |-> uninit_vector(num_rows)],
     divisors |-> divs, domain_offset |-> offset, trace_length |-> trace_len]

\* The loop of update_row over columns.iter_mut().zip(row_data), from pair j
\* on. slices[j] is the part of column j the writer holds (the whole column
\* for the table); an index past its end panics, after the columns before.
RECURSIVE write_row(_, _, _, _, _)
write_row(evals, slices, row_idx, row_data, j) ==
    IF j > Min(Len(slices), Len(row_data)) THEN [ok |-> TRUE, evaluations |-> evals]
    ELSE IF row_idx >= slices[j].len THEN [ok |-> FALSE, evaluations |-> evals]
    ELSE write_row(
             [evals EXCEPT ![j] = WriteCell(@, slices[j].start + row_idx, row_data[j])],
             slices, row_idx, row_data, j + 1)

\* ConstraintEvaluationTable::update_row(row_idx, row_data)
update_row(evals, row_idx, row_data) ==
    write_row(evals, [j \in 1..Len(evals) |-> [start |-> 0, len |-> evals[j].len]],
              row_idx, row_data, 1)

\* A TableFragment::update_row that counts rows from the start of the table.
fragment_update_row_from_zero(evals, fragment, row_idx, row_data) ==
    write_row(evals,
              [j \in 1..Len(fragment.data) |-> [start |-> 0, len |-> fragment.data[j].len]],
              row_idx, row_data, 1)

\* TableFragment::update_row(row_idx, row_data), on the table's columns
fragment_update_row(evals, fragment, row_idx, row_data) ==
    write_row(evals, fragment.data, row_idx, row_data, 1)

\* A fragments() that drops the chunks beyond the last fragment instead of
\* indexing past fragment_data.
fragments_drop_extra(evals, k) ==
    IF evals = << >> \/ k = 0 THEN [ok |-> FALSE, fragments |-> << >>]
    ELSE LET fragment_size == evals[1].len \div k
         IN  IF fragment_size < MIN_FRAGMENT_SIZE
             THEN [ok |-> FALSE, fragments |-> << >>]
             ELSE [ok |-> TRUE,
                   fragments |-> [i \in 1..k |->
                       [offset |-> (i - 1) * fragment_size,
                        data |-> [j \in 1..Len(evals) |->
                                     chunks(evals[j].len, fragment_size)[i]]]]]

\* ConstraintEvaluationTable::fragments(num_fragments): ok is FALSE where the
\* code panics: no column (num_rows), a division by zero, the assert, or a
\* chunk whose index is past the end of fragment_data.
fragments_of(evals, k) ==
    IF evals = << >> \/ k = 0 THEN [ok |-> FALSE, fragments |-> << >>]
    ELSE LET fragment_size == evals[1].len \div k
         IN  IF fragment_size < MIN_FRAGMENT_SIZE
             THEN [ok |-> FALSE, fragments |-> << >>]
             ELSE IF \E j \in 1..Len(evals) :
                        Len(chunks(evals[j].len, fragment_size)) > k
             THEN [ok |-> FALSE, fragments |-> << >>]
             ELSE [ok |-> TRUE,
                   fragments |-> [i \in 1..k |->
                       [offset |-> (i - 1) * fragment_size,
                        data |-> [j \in 1..Len(evals) |->
                                     chunks(evals[j].len, fragment_size)[i]]]]]

\* The stages of the transform. After the stages so far, values holds the
\* transforms of length len of the strided parts of the input: the entry
\* j * (n / len) + r is the sum over q of input[r + q * (n / len)] times
\* (w^(n / len))^(j * q). A stage joins the parts r and r + stride into one
\* of twice the length. twiddles are the powers of w.
RECURSIVE fft_stages(_, _, _)
fft_stages(values, twiddles, len) ==
    IF len >= Len(values) THEN values
    ELSE LET half == Len(values) \div 2
             stride == half \div len
             joined(idx) ==
                 LET j == (idx - 1) \div stride
                     lo == (j % len) * 2 * stride + ((idx - 1) % stride)
                 IN  FAdd(values[lo + 1],
                          FMul(twiddles[stride * j + 1], values[lo + stride + 1]))
         IN  fft_stages([idx \in 1..half |-> joined(idx)]
                            \o [idx \in 1..half |-> joined(half + idx)],
                        twiddles, 2 * len)
\* The sum over i of values[i + 1] * w^(i * k), for every k below the length
\* (a power of two).
fft_in_place(values, w) ==
    fft_stages(values, power_series(1, w, Len(values), << >>), 1)

\* fft::interpolate_poly_with_offset: the coefficients of the polynomial of
\* degree below n that takes the value evals[i + 1] at offset * g^i.
interpolate_poly_with_offset(evals, offset) ==
    LET n == Len(evals)
        g_inv == FInv(get_root_of_unity(trailing_zeros(n)))
        n_inv == FInv(n % Modulus)
        sums == fft_in_place(evals, g_inv)
        offsets == power_series(n_inv, FInv(offset), n, << >>)
    IN  [k \in 1..n |-> FMul(offsets[k], sums[k])]

\* What reading a column gives: a written cell its value, a cell that was
\* never written whatever its place in memory held. memory has one value per
\* cell of the column.
ReadColumn(column, memory) ==
    [i \in 1..column.len |->
        IF IsWritten(column, i - 1) THEN column.cells[i - 1] ELSE memory[i]]

\* The product of x^degree - constant over the terms from k on.
RECURSIVE numerator_at(_, _, _)
numerator_at(terms, x, k) ==
    IF k > Len(terms) THEN 1
    ELSE FMul(FSub(FExp(x, terms[k][1]), terms[k][2]), numerator_at(terms, x, k + 1))
\* The product of x - e over the exclusion points from k on.
RECURSIVE denominator_at(_, _, _)
denominator_at(exclude, x, k) ==
    IF k > Len(exclude) THEN 1
    ELSE FMul(FSub(x, exclude[k]), denominator_at(exclude, x, k + 1))
\* ConstraintDivisor::evaluate_at(x): numerator / denominator, the division
\* being the multiplication by the inverse.
evaluate_at(divisor, x) ==
    FMul(numerator_at(divisor.numerator, x, 1),
         FInv(denominator_at(divisor.exclude, x, 1)))

\* The largest k in lo..hi with poly[k] # 0, and 0 when there is none.
RECURSIVE last_nonzero(_, _, _)
last_nonzero(coefficients, lo, hi) ==
    IF lo > hi THEN 0
    ELSE IF lo = hi THEN (IF coefficients[lo] # 0 THEN lo ELSE 0)
    ELSE LET mid == (lo + hi) \div 2
             upper == last_nonzero(coefficients, mid + 1, hi)
         IN  IF upper # 0 THEN upper ELSE last_nonzero(coefficients, lo, mid)
\* polynom::degree_of(poly): the index of the last nonzero coefficient, 0 for
\* the zero polynomial.
degree_of(coefficients) ==
    IF coefficients = << >> THEN 0
    ELSE LET k == last_nonzero(coefficients, 1, Len(coefficients))
         IN  IF k = 0 THEN 0 ELSE k - 1

\* validate_column_degree (debug build): the column divided by the divisor
\* point by point and interpolated has the expected degree, or the error.
validate_column_degree(column, divisor, offset, expected_degree) ==
    LET n == Len(column)
        g == get_root_of_unity(trailing_zeros(n))
        domain == power_series(offset, g, n, << >>)
        divided == [i \in 1..n |->
                       FMul(column[i], FInv(evaluate_at(divisor, domain[i])))]
        quotient == interpolate_poly_with_offset(divided, offset)
    IN  IF expected_degree # degree_of(quotient)
        THEN MismatchedConstraintPolynomialDegree(expected_degree, degree_of(quotient))
        ELSE Ok

\* The loop of into_poly over evaluations.zip(divisors), from column j on.
\* memory[j] is what the allocation of column j held; build says whether the
\* concurrent feature is on, how many threads the rayon pool has, and whether
\* debug assertions are on. In a debug build every column is validated before
\* it is accumulated, and the first error is returned.
RECURSIVE acc_columns(_, _, _, _, _, _, _)
acc_columns(evals, divs, offset, memory, combined, j, build) ==
    IF j > Min(Len(evals), Len(divs)) THEN [res |-> Ok, result |-> combined]
    ELSE LET column == ReadColumn(evals[j], memory[j])
             v == IF ~build.debug THEN Ok
                  ELSE IF Len(column) = 0 THEN Panic
                  ELSE validate_column_degree(column, divs[j], offset, Len(column) - 1)
             r == acc_column(column, divs[j], offset, combined,
                             build.concurrent, build.num_threads)
         IN  IF v # Ok THEN [res |-> v, result |-> combined]
             ELSE IF ~r.ok THEN [res |-> Panic, result |-> r.result]
             ELSE acc_columns(evals, divs, offset, memory, r.result, j + 1, build)

\* ConstraintEvaluationTable::into_poly
into_poly(evals, divs, offset, memory, build) ==
    IF evals = << >> THEN [res |-> Panic, poly |-> << >>]
    ELSE LET zeroed == [i \in 1..evals[1].len |-> 0]
             r == acc_columns(evals, divs, offset, memory, zeroed, 1, build)
         IN  IF r.res # Ok THEN [res |-> r.res, poly |-> << >>]
             ELSE [res |-> Ok, poly |-> interpolate_poly_with_offset(r.result, offset)]

\* ------------------------------------------- the divisor functions, applied
\* Arguments: the domain sizes, the domain offsets, the constants of the
\* divisor's numerator, its exclusion points, the columns.
MaxLogRows == 3
MaxColumnSeed == 1
RowCounts == {Pow(2, k) : k \in 1..MaxLogRows}
Degrees(N) == {a \in 1..N : N % a = 0}
DomainOffsets == {1, 11}
NumeratorConstants == {1, 3}
Exclusions == {<< >>, <<1>>, <<5>>, <<1, 5>>}
ColumnValue(i, seed) == (seed * 4099 + 17 * i * i + 3) % Modulus
ColumnOf(N, seed) == [i \in 1..N |-> ColumnValue(i, seed)]
ResultOf(N, seed) == [i \in 1..N |-> IF seed = 0 THEN 0 ELSE ColumnValue(i + 1, 7)]

NoDivIn ==
    [column |-> << >>, divisor |-> Divisor(<< >>, << >>), domain_offset |-> 0,
     result |-> << >>, concurrent |-> FALSE, num_threads |-> 1]

\* A build of the crate: the concurrent feature, the threads of the rayon
\* pool, debug assertions.
Build(concurrent, num_threads, debug) ==
    [concurrent |-> concurrent, num_threads |-> num_threads, debug |-> debug]
NoPoly ==
    [res |-> NoResult, coefficients |-> << >>, unwritten |-> {},
     build |-> Build(FALSE, 1, FALSE)]

TblOff ==
    /\ tbl_pc = "off"
    /\ evaluations = << >>
    /\ divisors = << >>
    /\ domain_offset = 0
    /\ trace_length = 0
    /\ fragments = << >>
    /\ num_fragments = -1
    /\ writes = 0
    /\ by_table = << >>
    /\ poly = NoPoly

DivOff == div_pc = "off" /\ div_in = NoDivIn /\ inv_out = << >> /\ acc_out = << >>

DivInit ==
    /\ div_pc = "ready"
    /\ \E N \in RowCounts, offset \in DomainOffsets, b \in NumeratorConstants,
          ex \in Exclusions, cs \in 0..MaxColumnSeed, rs \in 0..1,
          two_terms \in BOOLEAN :
          \E a \in Degrees(N) :
            div_in = [column |-> ColumnOf(N, cs),
                      divisor |-> Divisor(IF two_terms THEN <<<<a, b>>, <<1, 1>>>>
                                          ELSE <<<<a, b>>>>, ex),
                      domain_offset |-> offset,
                      result |-> ResultOf(N, rs),
                      concurrent |-> FALSE, num_threads |-> 1]
    /\ inv_out = << >>
    /\ acc_out = << >>

\* The arguments of a concurrent build: columns of MIN_CONCURRENT_SIZE rows
\* and more, and the number of threads of the rayon pool.
MaxLogConcurrentRows == 0
MaxThreads == 3
ConcurrentRowCounts == {MIN_CONCURRENT_SIZE * Pow(2, k) : k \in 0..MaxLogConcurrentRows}
ConcurrentDegrees(N) == {1, 2, N \div 4, N \div 2, N}
DivInitConcurrent ==
    /\ div_pc = "ready"
    /\ \E N \in ConcurrentRowCounts, offset \in DomainOffsets, b \in NumeratorConstants,
          ex \in {<< >>, <<5>>}, num_threads \in 1..MaxThreads :
          \E a \in ConcurrentDegrees(N), result_rows \in {N, 2 * N} :
            div_in = [column |-> ColumnOf(N, 0),
                      divisor |-> Divisor(<<<<a, b>>>>, ex),
                      domain_offset |-> offset,
                      result |-> ResultOf(result_rows, 1),
                      concurrent |-> TRUE, num_threads |-> num_threads]
    /\ inv_out = << >>
    /\ acc_out = << >>

\* get_inv_evaluation is applied to the arguments.
GetInvEvaluation ==
    /\ div_pc = "ready"
    /\ inv_out = << >>
    /\ inv_out' = get_inv_evaluation(div_in.divisor, Len(div_in.column),
                      div_in.domain_offset, div_in.concurrent, div_in.num_threads)
    /\ UNCHANGED <<div_pc, div_in, acc_out, notDiv>>

\* acc_column is applied to the arguments; a panic leaves "panicked".
AccColumn ==
    /\ div_pc = "ready"
    /\ LET r == acc_column(div_in.column, div_in.divisor, div_in.domain_offset,
                           div_in.result, div_in.concurrent, div_in.num_threads)
       IN  /\ div_pc' = IF r.ok THEN "done" ELSE "panicked"
           /\ acc_out' = r.result
    /\ UNCHANGED <<div_in, inv_out, notDiv>>

DivNext == GetInvEvaluation \/ AccColumn

\* ------------------------------------------------- the table, as state
\* The sizes of the constraint evaluation domain: small for the table that is
\* written row by row and consumed, at least MIN_FRAGMENT_SIZE for the table
\* that is written through fragments.
MaxLogTableRows == 2
MaxLogFragmentRows == 2
MaxFragments == 4
MaxFragmentWrites == 2
TableRowCounts == {Pow(2, k) : k \in 1..MaxLogTableRows}
FragmentRowCounts == {MIN_FRAGMENT_SIZE * Pow(2, k) : k \in 0..MaxLogFragmentRows}

\* The divisors of an AIR over a trace of N / 2 steps: the transition divisor
\* (x^trace_length - 1) / (x - last trace point), and one boundary divisor.
TransitionDivisor(trace_len) ==
    Divisor(<<<<trace_len, 1>>>>,
            <<FExp(FExp(TWO_ADIC_ROOT_OF_UNITY,
                        Pow(2, TWO_ADICITY) \div trace_len), trace_len - 1)>>)
BoundaryDivisor == Divisor(<<<<1, 1>>>>, << >>)
DivisorLists(N) ==
    {<<TransitionDivisor(N \div 2)>>, <<TransitionDivisor(N \div 2), BoundaryDivisor>>}
\* The trace of the large table that is consumed in a concurrent build.
ShortTrace == 8
\* The threads of the rayon pool, for the tables.
TableThreads == {1, 2, 16}
TableOffset == 11
\* The memory under the columns of a table when the pages are fresh: zero in
\* every cell. Memory that was used before holds anything.
FreshMemory(evals) == [j \in 1..Len(evals) |-> [i \in 1..evals[j].len |-> 0]]
\* What into_poly returns after it read a cell that was never written: the
\* outcome of into_poly(evaluations, divisors, domain_offset, memory, build)
\* for whatever memory the allocation held, any value in any unwritten cell.
\* The state does not say which.
Indeterminate == [tag |-> "Indeterminate", a |-> 0, b |-> 0]
CellValue(row, j, variant) == (1 + 2 * row + 1000 * j + 5000 * variant) % Modulus
RowData(row, len, variant) == [j \in 1..len |-> CellValue(row, j, variant)]
\* The rows of a table that is written in full: zero in every column for a
\* negative variant (no constraint is violated anywhere on the domain).
FillData(row, len, variant) ==
    IF variant < 0 THEN [j \in 1..len |-> 0] ELSE RowData(row, len, variant)

TblInit ==
    /\ tbl_pc = "none"
    /\ evaluations = << >>
    /\ divisors = << >>
    /\ domain_offset = 0
    /\ trace_length = 0
    /\ fragments = << >>
    /\ num_fragments = -1
    /\ writes = 0
    /\ by_table = << >>
    /\ poly = NoPoly

TableNew(N, trace_len, divs) ==
    /\ tbl_pc = "none"
    /\ LET t == Table_new(N, divs, TableOffset, trace_len)
       IN  /\ evaluations' = t.evaluations
           /\ by_table' = t.evaluations
           /\ divisors' = t.divisors
           /\ domain_offset' = t.domain_offset
           /\ trace_length' = t.trace_length
    /\ tbl_pc' = "live"
    /\ UNCHANGED <<fragments, num_fragments, writes, poly, notTbl>>

\* update_row on the table; an index out of range panics.
UpdateRow(row_idx, len, variant) ==
    /\ tbl_pc = "live"
    /\ LET r == update_row(evaluations, row_idx, RowData(row_idx, len, variant))
       IN  /\ evaluations' = r.evaluations
           /\ by_table' = r.evaluations
           /\ tbl_pc' = IF r.ok THEN "live" ELSE "panicked"
    /\ UNCHANGED <<divisors, domain_offset, trace_length, fragments, num_fragments,
                   writes, poly, notTbl>>

\* Every row of the table is written once, in row order: update_row(i, row)
\* for the rows lo..hi.
RECURSIVE fill_rows(_, _, _, _)
fill_rows(evals, lo, hi, variant) ==
    IF lo = hi
    THEN update_row(evals, lo, FillData(lo, Len(evals), variant)).evaluations
    ELSE LET mid == (lo + hi) \div 2
             lower == fill_rows(evals, lo, mid, variant)
         IN  IF Len(lower) = 0 THEN lower
             ELSE fill_rows(lower, mid + 1, hi, variant)

\* The constraint evaluator writes every row of the table.
FillRows(variant) ==
    /\ tbl_pc = "live"
    /\ evaluations # << >>
    /\ \A j \in 1..Len(evaluations) : evaluations[j].cells = << >>
    /\ evaluations' = fill_rows(evaluations, 0, evaluations[1].len - 1, variant)
    /\ by_table' = evaluations'
    /\ UNCHANGED <<tbl_pc, divisors, domain_offset, trace_length, fragments,
                   num_fragments, writes, poly, notTbl>>

\* into_poly consumes the table. In a release build whether it panics depends
\* on the lengths and the divisors only, not on the values read. When every
\* cell it reads was written the outcome is that of into_poly; when it reads
\* a cell that was never written the coefficients are Indeterminate, and in a
\* debug build the result of the degree validation is too.
IntoPoly(concurrent, num_threads, debug) ==
    /\ tbl_pc = "live"
    /\ LET build == Build(concurrent, num_threads, debug)
           unwritten == {c \in (1..Min(Len(evaluations), Len(divisors)))
                                \X (0..(evaluations[1].len - 1)) :
                             ~IsWritten(evaluations[c[1]], c[2])}
       IN  \E r \in {IF unwritten # {} /\ debug
                      THEN [res |-> Indeterminate, poly |-> Indeterminate]
                      ELSE into_poly(evaluations, divisors, domain_offset,
                                     FreshMemory(evaluations), build)} :
              /\ poly' = [res |-> r.res,
                          coefficients |-> IF unwritten = {} THEN r.poly
                                           ELSE IF r.res = Panic THEN << >>
                                           ELSE Indeterminate,
                          unwritten |-> unwritten,
                          build |-> build]
              /\ tbl_pc' = IF r.res = Panic THEN "panicked" ELSE "consumed"
    /\ UNCHANGED <<evaluations, divisors, domain_offset, trace_length, fragments,
                   num_fragments, writes, by_table, notTbl>>

\* fragments(k) borrows the table until the fragments are dropped.
Fragments(k) ==
    /\ tbl_pc = "live"
    /\ LET r == fragments_of(evaluations, k)
       IN  /\ fragments' = r.fragments
           /\ tbl_pc' = IF r.ok THEN "fragmented" ELSE "panicked"
    /\ num_fragments' = k
    /\ UNCHANGED <<evaluations, divisors, domain_offset, trace_length, writes,
                   by_table, poly, notTbl>>

\* The worker that holds fragment i writes one of its rows. by_table has the
\* same data written by the table's update_row at row offset + row_idx.
FragmentUpdateRow(i, row_idx, len, variant) ==
    /\ tbl_pc = "fragmented"
    /\ writes < MaxFragmentWrites
    /\ i \in 1..Len(fragments)
    /\ LET data == RowData(fragments[i].offset + row_idx, len, variant)
           r == fragment_update_row(evaluations, fragments[i], row_idx, data)
       IN  /\ evaluations' = r.evaluations
           /\ tbl_pc' = IF r.ok THEN "fragmented" ELSE "panicked"
           /\ by_table' = IF r.ok
                          THEN update_row(by_table, fragments[i].offset + row_idx,
                                          data).evaluations
                          ELSE by_table
    /\ writes' = writes + 1
    /\ UNCHANGED <<divisors, domain_offset, trace_length, fragments, num_fragments,
                   poly, notTbl>>

\* The workers are joined and the fragments dropped: the borrow ends.
DropFragments ==
    /\ tbl_pc = "fragmented"
    /\ fragments' = << >>
    /\ tbl_pc' = "live"
    /\ UNCHANGED <<evaluations, divisors, domain_offset, trace_length, num_fragments,
                   writes, by_table, poly, notTbl>>

\* The row indices a caller passes: those of the table, and the one past its end.
RowIndices == IF evaluations = << >> THEN {} ELSE 0..evaluations[1].len
MaxRowData == 3
\* Row 0 is written with either of two rows of data, the others with one.
RowVariants(row_idx) == IF row_idx = 0 THEN 0..1 ELSE {0}

\* The table of a sequential build: written row by row, then consumed.
TableNext ==
    \/ \E N \in TableRowCounts : \E divs \in DivisorLists(N) :
          TableNew(N, N \div 2, divs)
    \/ \E row_idx \in RowIndices, len \in 0..MaxRowData :
          \E variant \in RowVariants(row_idx) : UpdateRow(row_idx, len, variant)
    \/ \E debug \in BOOLEAN : IntoPoly(FALSE, 1, debug)

\* The rows a worker writes: the first and the last of its fragment, and the
\* one past its end.
ProbeRows(fragment) == {0, fragment.data[1].len - 1, fragment.data[1].len}

\* The table of a concurrent build, written through fragments.
FragmentNext ==
    \/ \E N \in FragmentRowCounts : \E divs \in DivisorLists(N) :
          TableNew(N, N \div 2, divs)
    \/ \E k \in 0..MaxFragments : Fragments(k)
    \/ \E i \in 1..Len(fragments) :
          \E row_idx \in ProbeRows(fragments[i]), len \in 1..2 :
             FragmentUpdateRow(i, row_idx, len, writes)
    \/ DropFragments

\* The table of a concurrent build, written in full and consumed: the small
\* tables, and those of MIN_CONCURRENT_SIZE rows over the short trace.
ConcurrentTableRowCounts == {Pow(2, k) : k \in 1..(MaxLogTableRows + 1)}
ConcurrentTableNext ==
    \/ \E N \in ConcurrentTableRowCounts : \E divs \in DivisorLists(N) :
          TableNew(N, N \div 2, divs)
    \/ \E N \in ConcurrentRowCounts : \E divs \in DivisorLists(2 * ShortTrace) :
          TableNew(N, ShortTrace, divs)
    \/ \E variant \in -1..1 : FillRows(variant)
    \/ \E num_threads \in TableThreads, debug \in BOOLEAN :
          IntoPoly(TRUE, num_threads, debug)

\* ------------------------------------------ verifier/verification.rs
\* perform_verification, lines 35-40: the fold over the enumerated
\* ood_constraint_evaluations, sum of z^i * value_i from column i on.
RECURSIVE reduce_ood_evaluations(_, _, _, _)
reduce_ood_evaluations(z, values, i, result) ==
    IF i >= Len(values) THEN result
    ELSE reduce_ood_evaluations(z, values, i + 1,
             EAdd(result, EMul(EExp(z, i), values[i + 1])))

\* An OOD check that compares the base-field parts only.
ood_check_base_part(ood_evaluation_1, ood_evaluation_2) ==
    IF ood_evaluation_1[1] # ood_evaluation_2[1]
    THEN InconsistentOodConstraintEvaluations
    ELSE Ok

\* perform_verification, lines 43-45
ood_check(ood_evaluation_1, ood_evaluation_2) ==
    IF ood_evaluation_1 # ood_evaluation_2
    THEN InconsistentOodConstraintEvaluations
    ELSE Ok

\* perform_verification, lines 55-58
compute_x_coordinates(query_positions, g_lde, offset) ==
    [k \in 1..Len(query_positions) |-> FMul(FExp(g_lde, query_positions[k]), offset)]

\* A get_conjugate_values that returns the conjugates whatever the options.
get_conjugate_values_always(field_extension, trace_state, z) ==
    [some |-> TRUE,
     z_conjugate |-> conjugate(z),
     values |-> [i \in 1..Len(trace_state) |-> conjugate(trace_state[i])]]

\* get_conjugate_values(air, trace_state, z): None without a field extension
get_conjugate_values(field_extension, trace_state, z) ==
    IF ~field_extension
    THEN [some |-> FALSE, z_conjugate |-> E_ZERO, values |-> << >>]
    ELSE [some |-> TRUE,
          z_conjugate |-> conjugate(z),
          values |-> [i \in 1..Len(trace_state) |-> conjugate(trace_state[i])]]

\* compose_registers, lines 146-165: the loop over the registers of one state
RECURSIVE compose_state(_, _, _, _, _, _, _, _, _, _)
compose_state(registers, x, trace_at_z1, trace_at_z2, z, next_z, conjugate_values, cc, i, composition) ==
    IF i > Len(registers) THEN composition
    ELSE LET value == E_from(registers[i])
             t1 == EDiv(ESub(value, trace_at_z1[i]), ESub(x, z))
             with_t1 == EAdd(composition, EMul(t1, cc.trace[i][1]))
             t2 == EDiv(ESub(value, trace_at_z2[i]), ESub(x, next_z))
             with_t2 == EAdd(with_t1, EMul(t2, cc.trace[i][2]))
             with_t3 ==
                IF conjugate_values.some
                THEN LET t3 == EDiv(ESub(value, conjugate_values.values[i]),
                                    ESub(x, conjugate_values.z_conjugate))
                     IN  EAdd(with_t2, EMul(t3, cc.trace[i][3]))
                ELSE with_t2
         IN  compose_state(registers, x, trace_at_z1, trace_at_z2, z, next_z,
                           conjugate_values, cc, i + 1, with_t3)

\* compose_registers(air, trace_states, x_coordinates, ood_frame, z, cc): ok
\* is FALSE where an index is out of bounds.
compose_registers(air, trace_states, x_coordinates, ood_frame, z, cc) ==
    LET next_z == EMul(z, E_from(air.trace_domain_generator))
        trace_at_z1 == ood_frame.current
        trace_at_z2 == ood_frame.next
        conjugate_values == get_conjugate_values(air.field_extension, trace_at_z1, z)
        m == Min(Len(trace_states), Len(x_coordinates))
        width == Min(Min(Len(trace_at_z1), Len(trace_at_z2)), Len(cc.trace))
    IN  IF \E k \in 1..m : Len(trace_states[k]) > width
        THEN [ok |-> FALSE, result |-> << >>]
        ELSE [ok |-> TRUE,
              result |-> [k \in 1..m |->
                  compose_state(trace_states[k], E_from(x_coordinates[k]),
                                trace_at_z1, trace_at_z2, z, next_z,
                                conjugate_values, cc, 1, E_ZERO)]]

\* super::compose_constraints: for every query the sum over the columns j of
\* (C_j(x) - v_j) / (x - z), weighted by the constraint coefficients.
RECURSIVE compose_constraint_columns(_, _, _, _, _, _, _)
compose_constraint_columns(evals, x, z, ood_evals, cc, j, composition) ==
    IF j > Len(evals) THEN composition
    ELSE compose_constraint_columns(evals, x, z, ood_evals, cc, j + 1,
             EAdd(composition,
                  EMul(EDiv(ESub(evals[j], ood_evals[j]), ESub(x, z)),
                       cc.constraints[j])))
compose_constraints(constraint_evaluations, x_coordinates, z, ood_evals, cc) ==
    LET m == Min(Len(constraint_evaluations), Len(x_coordinates))
    IN  [k \in 1..m |->
            compose_constraint_columns(constraint_evaluations[k],
                E_from(x_coordinates[k]), z, ood_evals, cc, 1, E_ZERO)]

\* perform_verification, lines 93-106: the sum of the two compositions, and
\* the degree adjustment.
combine_compositions(t_composition, c_composition, x_coordinates, cc) ==
    LET m == Min(Min(Len(t_composition), Len(c_composition)), Len(x_coordinates))
    IN  [k \in 1..m |->
            EMul(EAdd(t_composition[k], c_composition[k]),
                 EAdd(cc.degree[1], EMul(E_from(x_coordinates[k]), cc.degree[2])))]

\* A map_err that hands on the error of fri::verify as it is.
fri_verdict_unwrapped(fri_result) == fri_result

\* perform_verification, lines 117-118: map_err(FriVerificationFailed)
fri_verdict(fri_result) ==
    IF fri_result = Ok THEN Ok ELSE FriVerificationFailed(fri_result)

\* ------------------------------------------- the verifier, as state
\* The most columns of the composition polynomial, registers of the trace
\* and query positions.
MaxOodColumns == 2
MaxRegisters == 2
MaxPositions == 2
\* The LDE domain: 2^LogLdeDomain points on the coset of TableOffset, over a
\* trace of half that length.
LogLdeDomain == 3
PositionChoices == {1, 6}
QueryPositionLists ==
    UNION {[1..n -> PositionChoices] : n \in 0..MaxPositions}
DeepPoints(field_extension) ==
    IF field_extension THEN {<<0, 0>>, <<3, 0>>, <<5, 2>>} ELSE {<<0, 0>>, <<3, 0>>}
Epsilons == {<<1, 0>>, <<0, 7>>}
\* The values the proof carries, in E or in B as the field extension says.
InE(field_extension, a, b) == IF field_extension THEN <<a, b>> ELSE <<a, 0>>
OodValue(field_extension, j) == InE(field_extension, 20 + 3 * j, 5 + j)
FrameValue(field_extension, i, next) ==
    InE(field_extension, 100 + 7 * i + 50 * next, 9 + i + next)
TraceValue(p, i) == (1 + 31 * p + 7 * i) % Modulus
ConstraintValue(field_extension, p, j) == InE(field_extension, 3 + 13 * p + j, 2 + p + j)
CoefficientValue(field_extension, k) == InE(field_extension, 2 + 5 * k, 1 + k)

\* v with v_i replaced by v_i + epsilon (column 0: no change).
Perturbed(values, column, epsilon) ==
    [j \in 1..Len(values) |-> IF j = column THEN EAdd(values[j], epsilon) ELSE values[j]]

\* evaluate_constraints(air, channel, ood_frame, z) of an AIR whose constraints
\* hold on the trace behind the frame: the value of the composition
\* polynomial at z, H(z) = H_0 + z * (H_1 + z * (...)) for the columns the
\* prover computed; or another value (off # 0) when they do not hold.
RECURSIVE composition_at(_, _, _)
composition_at(z, columns, j) ==
    IF j > Len(columns) THEN E_ZERO
    ELSE EAdd(columns[j], EMul(z, composition_at(z, columns, j + 1)))
evaluate_constraints(z, columns, off) ==
    EAdd(composition_at(z, columns, 1), E_from(off))

NoAir == [trace_domain_generator |-> 0, g_lde |-> 0, domain_offset |-> 0,
          field_extension |-> FALSE]
NoFrame == [current |-> << >>, next |-> << >>]
NoCoefficients == [trace |-> << >>, constraints |-> << >>, degree |-> <<E_ZERO, E_ZERO>>]
NoChannel ==
    [air |-> NoAir, z |-> E_ZERO, ood_frame |-> NoFrame, computed |-> << >>,
     off |-> 0, column |-> 0, ood_evaluations |-> << >>, query_positions |-> << >>,
     trace_states |-> << >>, trace_read |-> NoResult,
     constraint_evaluations |-> << >>, constraint_read |-> NoResult,
     coefficients |-> NoCoefficients, fri_result |-> NoResult]
NoLocals ==
    [z |-> E_ZERO, ood_frame |-> NoFrame, ood_evaluation_1 |-> E_ZERO,
     ood_constraint_evaluations |-> << >>, ood_evaluation_2 |-> E_ZERO,
     query_positions |-> << >>, x_coordinates |-> << >>, trace_states |-> << >>,
     constraint_evaluations |-> << >>, coefficients |-> NoCoefficients,
     evaluations |-> << >>]

VerOff ==
    /\ ver_pc = "off"
    /\ channel = NoChannel
    /\ ver = NoLocals
    /\ calls = << >>
    /\ verdict = NoResult

\* The channel and the AIR that perform_verification is called with: a proof
\* with m composition columns (computed), of which the prover sends column
\* `column` with epsilon added (column 0: sends them as computed).
VerInit ==
    /\ ver_pc = "draw_deep_point"
    /\ \E field_extension \in BOOLEAN, m \in 1..MaxOodColumns,
          width \in 1..MaxRegisters, positions \in QueryPositionLists,
          off \in 0..1, column \in 0..MaxOodColumns, epsilon \in Epsilons,
          trace_read \in {Ok, TraceQueryDoesNotMatchCommitment},
          constraint_read \in {Ok, ConstraintQueryDoesNotMatchCommitment},
          fri_result \in {Ok, FriError(1)} :
          \E z \in DeepPoints(field_extension) :
             /\ column <= m
             /\ (column = 0 => epsilon = <<1, 0>>)
             /\ (~field_extension => epsilon[2] = 0)
             /\ LET computed == [j \in 1..m |-> OodValue(field_extension, j)]
                IN  channel =
                     [air |-> [trace_domain_generator |-> get_root_of_unity(LogLdeDomain - 1),
                               g_lde |-> get_root_of_unity(LogLdeDomain),
                               domain_offset |-> TableOffset,
                               field_extension |-> field_extension],
                      z |-> z,
                      ood_frame |->
                         [current |-> [i \in 1..width |-> FrameValue(field_extension, i, 0)],
                          next |-> [i \in 1..width |-> FrameValue(field_extension, i, 1)]],
                      computed |-> computed,
                      off |-> off,
                      column |-> column,
                      ood_evaluations |-> Perturbed(computed, column, epsilon),
                      query_positions |-> positions,
                      trace_states |-> [k \in 1..Len(positions) |->
                                          [i \in 1..width |-> TraceValue(positions[k], i)]],
                      trace_read |-> trace_read,
                      constraint_evaluations |-> [k \in 1..Len(positions) |->
                          [j \in 1..m |-> ConstraintValue(field_extension, positions[k], j)]],
                      constraint_read |-> constraint_read,
                      coefficients |->
                         [trace |-> [i \in 1..width |->
                                       <<CoefficientValue(field_extension, 3 * i),
                                         CoefficientValue(field_extension, 3 * i + 1),
                                         CoefficientValue(field_extension, 3 * i + 2)>>],
                          constraints |-> [j \in 1..m |->
                                       CoefficientValue(field_extension, 20 + j)],
                          degree |-> <<CoefficientValue(field_extension, 30),
                                       CoefficientValue(field_extension, 31)>>],
                      fri_result |-> fri_result]
    /\ ver = NoLocals
    /\ calls = << >>
    /\ verdict = NoResult

\* Where perform_verification goes after the OOD check: the return at
\* line 44, or on.
after_ood_check_goes_on(result) == "draw_query_positions"
after_ood_check(result) ==
    IF result = Ok THEN "draw_query_positions" ELSE "done"
\* The ? of lines 62 and 63: the error is returned as it is.
after_read(result, next) == IF result = Ok THEN next ELSE "done"

\* line 25
DrawDeepPoint ==
    /\ ver_pc = "draw_deep_point"
    /\ ver' = [ver EXCEPT !.z = channel.z]
    /\ calls' = Append(calls, "draw_deep_point")
    /\ ver_pc' = "read_ood_evaluation_frame"
    /\ UNCHANGED <<channel, verdict, notVer>>

\* lines 28-29
ReadOodEvaluationFrame ==
    /\ ver_pc = "read_ood_evaluation_frame"
    /\ ver' = [ver EXCEPT !.ood_frame = channel.ood_frame,
                          !.ood_evaluation_1 =
                              evaluate_constraints(ver.z, channel.computed, channel.off)]
    /\ calls' = Append(calls, "read_ood_evaluation_frame")
    /\ ver_pc' = "read_ood_evaluations"
    /\ UNCHANGED <<channel, verdict, notVer>>

\* lines 34-45
ReadOodEvaluations ==
    /\ ver_pc = "read_ood_evaluations"
    /\ LET ood_evaluation_2 ==
               reduce_ood_evaluations(ver.z, channel.ood_evaluations, 0, E_ZERO)
           result == ood_check(ver.ood_evaluation_1, ood_evaluation_2)
       IN  /\ ver' = [ver EXCEPT !.ood_constraint_evaluations = channel.ood_evaluations,
                                 !.ood_evaluation_2 = ood_evaluation_2]
           /\ verdict' = IF result = Ok THEN verdict ELSE result
           /\ ver_pc' = after_ood_check(result)
    /\ calls' = Append(calls, "read_ood_evaluations")
    /\ UNCHANGED <<channel, notVer>>

\* lines 50-58
DrawQueryPositions ==
    /\ ver_pc = "draw_query_positions"
    /\ ver' = [ver EXCEPT !.query_positions = channel.query_positions,
                          !.x_coordinates =
                              compute_x_coordinates(channel.query_positions,
                                  channel.air.g_lde, channel.air.domain_offset)]
    /\ calls' = Append(calls, "draw_query_positions")
    /\ ver_pc' = "read_trace_states"
    /\ UNCHANGED <<channel, verdict, notVer>>

\* line 62
ReadTraceStates ==
    /\ ver_pc = "read_trace_states"
    /\ ver' = IF channel.trace_read = Ok
              THEN [ver EXCEPT !.trace_states = channel.trace_states]
              ELSE ver
    /\ verdict' = IF channel.trace_read = Ok THEN verdict ELSE channel.trace_read
    /\ ver_pc' = after_read(channel.trace_read, "read_constraint_evaluations")
    /\ calls' = Append(calls, "read_trace_states")
    /\ UNCHANGED <<channel, notVer>>

\* line 63
ReadConstraintEvaluations ==
    /\ ver_pc = "read_constraint_evaluations"
    /\ ver' = IF channel.constraint_read = Ok
              THEN [ver EXCEPT !.constraint_evaluations = channel.constraint_evaluations]
              ELSE ver
    /\ verdict' = IF channel.constraint_read = Ok THEN verdict
                  ELSE channel.constraint_read
    /\ ver_pc' = after_read(channel.constraint_read, "draw_composition_coefficients")
    /\ calls' = Append(calls, "read_constraint_evaluations")
    /\ UNCHANGED <<channel, notVer>>

\* lines 70-106: the coefficients are drawn and the evaluations composed.
DrawCompositionCoefficients ==
    /\ ver_pc = "draw_composition_coefficients"
    /\ LET coefficients == channel.coefficients
           t == compose_registers(channel.air, ver.trace_states, ver.x_coordinates,
                                  ver.ood_frame, ver.z, coefficients)
           c == compose_constraints(ver.constraint_evaluations, ver.x_coordinates,
                                    ver.z, ver.ood_constraint_evaluations, coefficients)
       IN  /\ ver' = [ver EXCEPT !.coefficients = coefficients,
                                 !.evaluations =
                                     IF t.ok
                                     THEN combine_compositions(t.result, c,
                                              ver.x_coordinates, coefficients)
                                     ELSE << >>]
           /\ verdict' = IF t.ok THEN verdict ELSE Panic
           /\ ver_pc' = IF t.ok THEN "fri_verify" ELSE "done"
    /\ calls' = Append(calls, "draw_composition_coefficients")
    /\ UNCHANGED <<channel, notVer>>

\* lines 111-118: the FRI context is built (num_fri_partitions is read from
\* the channel) and fri::verify decides.
FriVerify ==
    /\ ver_pc = "fri_verify"
    /\ verdict' = fri_verdict(channel.fri_result)
    /\ calls' = calls \o <<"num_fri_partitions", "fri_verify">>
    /\ ver_pc' = "done"
    /\ UNCHANGED <<channel, ver, notVer>>

VerNext ==
    \/ DrawDeepPoint
    \/ ReadOodEvaluationFrame
    \/ ReadOodEvaluations
    \/ DrawQueryPositions
    \/ ReadTraceStates
    \/ ReadConstraintEvaluations
    \/ DrawCompositionCoefficients
    \/ FriVerify

\* ------------------------------------------ claims on the divisor functions
ArgRows == Len(div_in.column)
ArgDegree == div_in.divisor.numerator[1][1]
ArgConstant == div_in.divisor.numerator[1][2]
ArgGenerator == get_root_of_unity(trailing_zeros(ArgRows))
\* x_i = domain_offset * g^i
DomainPoint(i) == FMul(div_in.domain_offset, FExp(ArgGenerator, i))
\* x_i^a - b
NumeratorAt(i) == FSub(FExp(DomainPoint(i), ArgDegree), ArgConstant)
NumeratorNeverZero == \A i \in 0..(ArgRows - 1) : NumeratorAt(i) # 0
InvComputed == div_pc = "ready" /\ inv_out # << >>

\* C6 as claimed: for every a dividing N, every offset and every b,
\* get_inv_evaluation returns N / a values with
\* inv[i] * ((offset * g^i)^a - b) = 1 for every i.
C6_InverseOfNumerator ==
    InvComputed
    => /\ Len(inv_out) = ArgRows \div ArgDegree
       /\ \A i \in 0..(Len(inv_out) - 1) : FMul(inv_out[i + 1], NumeratorAt(i)) = 1

\* C6 as amended: for every argument get_inv_evaluation returns N / a
\* values, in one thread or in batches; and when (offset * g^i)^a # b at every
\* point of the domain, inv[i] * ((offset * g^i)^a - b) = 1 for every i.
C6_InverseWhereNumeratorNotZero ==
    InvComputed
    => /\ Len(inv_out) = ArgRows \div ArgDegree
       /\ NumeratorNeverZero
          => \A i \in 0..(Len(inv_out) - 1) :
                FMul(inv_out[i + 1], NumeratorAt(i)) = 1

\* The values were computed in four batches (three threads, rounded up) of a
\* concurrent build.
C6_Witness ==
    /\ InvComputed
    /\ NumeratorNeverZero
    /\ div_in.concurrent
    /\ div_in.num_threads = 3
    /\ ArgDegree = 1
    /\ Len(inv_out) = MIN_CONCURRENT_SIZE
    /\ inv_out[1] # inv_out[Len(inv_out) \div 4 + 1]
\* The values were computed in one thread.
C6_WitnessSequential ==
    /\ InvComputed
    /\ NumeratorNeverZero
    /\ ~div_in.concurrent
    /\ ArgRows = 8
    /\ ArgDegree = 2
    /\ Len(inv_out) = 4
    /\ inv_out[1] # inv_out[2]
\* An argument with a zero of the numerator on the domain.
C6_WitnessZero ==
    /\ InvComputed
    /\ ~NumeratorNeverZero
    /\ Len(inv_out) = ArgRows \div ArgDegree

\* The factor the transition case multiplies in, x_i - c; 1 in the boundary case.
ExclusionAt(i) ==
    IF div_in.divisor.exclude = << >> THEN 1
    ELSE FSub(DomainPoint(i), div_in.divisor.exclude[1])
ArgInverses ==
    get_inv_evaluation(div_in.divisor, ArgRows, div_in.domain_offset,
                       div_in.concurrent, div_in.num_threads)
InverseAt(i) == ArgInverses[(i % Len(ArgInverses)) + 1]
Accumulated ==
    /\ div_pc = "done"
    /\ Len(div_in.column) = Len(div_in.result)
AddedTermsAreQuotients ==
    \A i \in 0..(ArgRows - 1) :
        acc_out[i + 1] =
            FAdd(div_in.result[i + 1],
                 FMul(div_in.column[i + 1], FMul(ExclusionAt(i), InverseAt(i))))

\* C7 as claimed: acc_column adds column[i] * z[i mod |z|] (boundary) or
\* column[i] * (x_i - c) * z[i mod |z|] (transition) to result[i], and
\* z[i mod |z|] is the inverse of x_i^a - b, for every i.
C7_AccumulatesQuotient ==
    Accumulated
    => /\ AddedTermsAreQuotients
       /\ \A i \in 0..(ArgRows - 1) : FMul(InverseAt(i), NumeratorAt(i)) = 1

\* C7 as amended: the added terms are as claimed for every divisor, and
\* z[i mod |z|] is the inverse of x_i^a - b when x^a - b has no zero on the
\* domain.
C7_AccumulatesQuotientWhereDefined ==
    Accumulated
    => /\ AddedTermsAreQuotients
       /\ NumeratorNeverZero
          => \A i \in 0..(ArgRows - 1) : FMul(InverseAt(i), NumeratorAt(i)) = 1

C7_Witness ==
    /\ Accumulated
    /\ NumeratorNeverZero
    /\ ArgRows = 8
    /\ ArgDegree = 2
    /\ Len(div_in.divisor.exclude) = 1
    /\ div_in.result[1] # 0
    /\ acc_out # div_in.result

\* A second case of C7: the boundary case.
C7_WitnessBoundary ==
    /\ Accumulated
    /\ NumeratorNeverZero
    /\ ArgRows = 8
    /\ ArgDegree = 4
    /\ div_in.divisor.exclude = << >>
    /\ acc_out # div_in.result

\* What the sequential loops of acc_column leave in result.
SequentialResult ==
    acc_column(div_in.column, div_in.divisor, div_in.domain_offset, div_in.result,
               FALSE, 1).result

\* C14: for N at or above the parallel threshold, every number of workers and
\* every divisor, acc_column in chunks of N / round_up_pow2(workers) leaves
\* result as the sequential loop does.
C14_ChunkedEqualsSequential ==
    (div_pc = "done" /\ div_in.concurrent /\ ArgRows >= MIN_CONCURRENT_SIZE) =>
        acc_out = SequentialResult

\* ------------------------------------------------- claims on the table
\* ConstraintEvaluationTable::num_rows(): evaluations[0].len(), an index out
\* of bounds on a table of no column.
num_rows == IF evaluations = << >> THEN Panic ELSE evaluations[1].len

\* C8: every cell of every column that into_poly reads was written by an
\* update_row call after new allocated it.
C8_IntoPolyReadsOnlyWrittenCells == poly.res = Ok => poly.unwritten = {}

\* The precondition of fragments(k), for the k of the last call.
FragmentsPrecondition ==
    /\ num_fragments > 0
    /\ num_rows % num_fragments = 0
    /\ num_rows \div num_fragments >= MIN_FRAGMENT_SIZE
\* The last call of fragments panicked (a panic of a fragment's update_row
\* leaves the fragments in place).
FragmentsPanicked == tbl_pc = "panicked" /\ fragments = << >> /\ num_fragments # -1
RowRange(i) ==
    {fragments[i].offset + r : r \in 0..(fragments[i].data[1].len - 1)}
FragmentsShape ==
    /\ Len(fragments) = num_fragments
    /\ \A i \in 1..Len(fragments) :
          /\ fragments[i].offset = (i - 1) * (num_rows \div num_fragments)
          /\ Len(fragments[i].data) = Len(evaluations)
          /\ \A j \in 1..Len(fragments[i].data) :
                /\ fragments[i].data[j].len = num_rows \div num_fragments
                /\ fragments[i].data[j].start = fragments[i].offset
FragmentsPartition ==
    /\ \A i, l \in 1..Len(fragments) : i # l => RowRange(i) \cap RowRange(l) = {}
    /\ UNION {RowRange(i) : i \in 1..Len(fragments)} = 0..(num_rows - 1)

\* C9: under its precondition fragments(k) returns k fragments, fragment i at
\* offset i * (num_rows / k) with num_rows / k rows and one slice per column;
\* the row ranges are pairwise disjoint and cover the table; and whatever the
\* order in which the workers write, the table holds what the table's own
\* update_row(offset_i + r, data) would have written.
C9_FragmentsPartitionTheTable ==
    /\ FragmentsPrecondition => ~FragmentsPanicked
    /\ (tbl_pc = "fragmented" /\ FragmentsPrecondition) =>
          (FragmentsShape /\ FragmentsPartition)
    /\ evaluations = by_table
\* Two workers have written, one of them in a fragment that does not start at
\* row 0.
C9_Witness ==
    /\ tbl_pc = "fragmented"
    /\ FragmentsPrecondition
    /\ num_fragments >= 2
    /\ writes = MaxFragmentWrites
    /\ \E i \in DOMAIN evaluations[1].cells : i < fragments[2].offset
    /\ \E i \in DOMAIN evaluations[1].cells : i >= fragments[2].offset

\* C10: when num_rows % k # 0 or num_rows / k < MIN_FRAGMENT_SIZE the call
\* panics and hands out no fragment; fragments that are handed out are of
\* equal size and cover every row.
C10_FragmentsRejectsBadCounts ==
    /\ (num_fragments # -1 /\ ~FragmentsPrecondition) =>
          (tbl_pc = "panicked" /\ fragments = << >>)
    /\ tbl_pc = "fragmented" =>
          /\ \A i, l \in 1..Len(fragments) :
                fragments[i].data[1].len = fragments[l].data[1].len
          /\ FragmentsPartition
\* fragments(3) on a table of 1024 rows: fragments of 341 rows would be large
\* enough, but 3 does not divide 1024.
C10_Witness ==
    /\ FragmentsPanicked
    /\ num_fragments > 0
    /\ num_rows % num_fragments # 0
    /\ num_rows \div num_fragments >= MIN_FRAGMENT_SIZE
\* fragments(k) that would give fragments below MIN_FRAGMENT_SIZE.
C10_WitnessSmallFragments ==
    /\ FragmentsPanicked
    /\ num_fragments > 0
    /\ num_rows % num_fragments = 0
    /\ num_rows \div num_fragments < MIN_FRAGMENT_SIZE

\* The point x_i = domain_offset * g^i of the constraint evaluation domain.
TablePoint(i) ==
    FMul(domain_offset, FExp(get_root_of_unity(trailing_zeros(num_rows)), i))
RECURSIVE ExclusionProduct(_, _, _)
ExclusionProduct(exclude, x, k) ==
    IF k > Len(exclude) THEN 1
    ELSE FMul(FSub(x, exclude[k]), ExclusionProduct(exclude, x, k + 1))
DivisorNumeratorAt(divisor, x) ==
    FSub(FExp(x, divisor.numerator[1][1]), divisor.numerator[1][2])
\* value divided by the divisor (x^a - b) / prod (x - e) at x.
DividedBy(value, divisor, x) ==
    FMul(FMul(value, ExclusionProduct(divisor.exclude, x, 1)),
         FInv(DivisorNumeratorAt(divisor, x)))
RECURSIVE SumOfQuotients(_, _)
SumOfQuotients(i, j) ==
    IF j > Len(evaluations) THEN 0
    ELSE FAdd(DividedBy(evaluations[j].cells[i], divisors[j], TablePoint(i)),
              SumOfQuotients(i, j + 1))
\* The value at x of the polynomial with the coefficients lo..hi, divided by
\* x^(lo - 1): the lower half plus x^(half) times the upper half.
RECURSIVE PolyAt(_, _, _, _)
PolyAt(coefficients, x, lo, hi) ==
    IF lo > hi THEN 0
    ELSE IF lo = hi THEN coefficients[lo]
    ELSE LET mid == (lo + hi) \div 2
         IN  FAdd(PolyAt(coefficients, x, lo, mid),
                  FMul(FExp(x, mid - lo + 1), PolyAt(coefficients, x, mid + 1, hi)))
FullyWritten ==
    /\ evaluations # << >>
    /\ \A j \in 1..Len(evaluations) : \A i \in 0..(num_rows - 1) :
          IsWritten(evaluations[j], i)
\* The returned coefficients are those of the polynomial whose value at every
\* x_i is the sum of the quotients.
InterpolatesQuotients ==
    /\ poly.res = Ok
    /\ Len(poly.coefficients) = num_rows
    /\ \A i \in 0..(num_rows - 1) :
          PolyAt(poly.coefficients, TablePoint(i), 1, num_rows) = SumOfQuotients(i, 1)
\* The chunked transition branch of acc_column runs: a concurrent build and
\* a table of MIN_CONCURRENT_SIZE rows or more.
ChunkedBuild == poly.build.concurrent /\ num_rows >= MIN_CONCURRENT_SIZE
\* The inverses of the transition divisor's numerator do not fit a chunk.
InversesLongerThanChunk ==
    num_rows \div divisors[1].numerator[1][1]
        > num_rows \div next_power_of_two(poly.build.num_threads)

\* C11: the polynomial that into_poly returns for a fully written table has
\* num_rows coefficients and is the one whose value at x_i = domain_offset * g^i
\* is the sum over the columns j of column_j[i] divided by divisors[j] at x_i.
C11_IntoPolyInterpolatesQuotients ==
    (tbl_pc = "consumed" /\ FullyWritten /\ poly.res = Ok) => InterpolatesQuotients

\* Where the polynomial is the interpolation of the quotients: every build
\* but the one whose chunked branch runs with inverses longer than a chunk.
C11_HoldsOutsideChunkedBranch ==
    (/\ tbl_pc = "consumed"
     /\ FullyWritten
     /\ poly.res = Ok
     /\ ~(ChunkedBuild /\ InversesLongerThanChunk))
    => InterpolatesQuotients
\* Where it is not: the table of 1024 rows over a trace of 8 steps, every row
\* written, consumed in a release build with 16 threads.
C11_ChunkedTableConsumed ==
    /\ tbl_pc = "consumed"
    /\ FullyWritten
    /\ ~poly.build.debug
    /\ ChunkedBuild
    /\ poly.build.num_threads = 16
    /\ trace_length = ShortTrace
    /\ poly.res = Ok
    /\ Len(poly.coefficients) = num_rows
    /\ \E i \in 0..(num_rows - 1) :
          PolyAt(poly.coefficients, TablePoint(i), 1, num_rows) # SumOfQuotients(i, 1)
\* In a debug build a fully written table whose first column is zero is
\* rejected by the degree check: no polynomial is returned.
C11_DebugRejects ==
    /\ tbl_pc = "consumed"
    /\ FullyWritten
    /\ poly.build.debug
    /\ poly.res = MismatchedConstraintPolynomialDegree(num_rows - 1, 0)
    /\ poly.coefficients = << >>

\* A call of update_row on the table has returned.
UpdateRowReturned == tbl_pc = "live" /\ tbl_pc' = "live"
\* The step wrote row_data into every column at row_idx and nothing else.
WroteWholeRow(row_idx, row_data) ==
    /\ Len(evaluations') = Len(evaluations)
    /\ \A j \in 1..Len(evaluations) :
          /\ evaluations'[j].len = evaluations[j].len
          /\ IsWritten(evaluations'[j], row_idx)
          /\ evaluations'[j].cells[row_idx] = row_data[j]
          /\ \A i \in 0..(evaluations[j].len - 1) :
                i # row_idx =>
                   /\ IsWritten(evaluations'[j], i) = IsWritten(evaluations[j], i)
                   /\ IsWritten(evaluations[j], i) =>
                         evaluations'[j].cells[i] = evaluations[j].cells[i]
    /\ UNCHANGED <<divisors, domain_offset, trace_length>>

\* C17: a call of update_row that returns has set the cell at row_idx of
\* every column to its entry of row_data and left everything else as it was;
\* no call returns with a column's cell at row_idx left unwritten.
C17_UpdateRowWritesEveryColumn ==
    [][UpdateRowReturned =>
          \E row_idx \in 0..(num_rows - 1) : \E variant \in RowVariants(row_idx) :
             WroteWholeRow(row_idx, RowData(row_idx, Len(evaluations), variant))]_vars

\* ----------------------------------------------- claims on the verifier
OodCheckDone == Len(calls) >= 3
\* The OOD check passes on the columns as the prover computed them.
PassesUnperturbed ==
    ver.ood_evaluation_1 = composition_at(ver.z, channel.computed, 1)
\* The prover sent one column with a nonzero epsilon added.
ColumnPerturbed ==
    /\ channel.column # 0
    /\ channel.ood_evaluations # channel.computed

\* C12: whatever the deep point z, the column i and the nonzero epsilon, when
\* the OOD check passes for v then perform_verification fails with
\* InconsistentOodConstraintEvaluations for v with v_i + epsilon in place of v_i.
C12_PerturbationFailsOodCheck ==
    (OodCheckDone /\ PassesUnperturbed /\ ColumnPerturbed) =>
        verdict = InconsistentOodConstraintEvaluations

\* C12, amended: the same where z^i # 0, that is for z # 0 or for column 0.
C12_PerturbationFailsWhereWeighted ==
    (/\ OodCheckDone
     /\ PassesUnperturbed
     /\ ColumnPerturbed
     /\ EExp(ver.z, channel.column - 1) # E_ZERO) =>
        verdict = InconsistentOodConstraintEvaluations
\* The second column perturbed, at a deep point of the extension field.
C12_Witness ==
    /\ OodCheckDone
    /\ PassesUnperturbed
    /\ ColumnPerturbed
    /\ channel.column = 2
    /\ ver.z[2] # 0
    /\ verdict = InconsistentOodConstraintEvaluations

\* The OOD check on what the prover sent: the AIR evaluation equals the sum
\* over i of z^i * v_i.
OodPasses ==
    ver.ood_evaluation_1 = composition_at(ver.z, channel.ood_evaluations, 1)
\* The verdict of the first step that fails, Ok when none does.
FirstFailure ==
    IF ~OodPasses THEN InconsistentOodConstraintEvaluations
    ELSE IF channel.trace_read # Ok THEN channel.trace_read
    ELSE IF channel.constraint_read # Ok THEN channel.constraint_read
    ELSE IF channel.fri_result # Ok THEN FriVerificationFailed(channel.fri_result)
    ELSE Ok

\* C13: perform_verification returns Ok exactly when the OOD check passes,
\* both authenticated reads succeed and fri::verify succeeds; otherwise it
\* returns the error of the first failing step: InconsistentOodConstraintEvaluations,
\* the channel's error as it is, or FriVerificationFailed around the FRI error.
C13_VerdictOfFirstFailure ==
    /\ ver_pc = "done" => verdict = FirstFailure
    /\ verdict # NoResult => ver_pc = "done"
\* Every step before fri::verify succeeded and fri::verify did not.
C13_Witness ==
    /\ ver_pc = "done"
    /\ OodPasses
    /\ channel.trace_read = Ok
    /\ channel.constraint_read = Ok
    /\ channel.fri_result = FriError(1)
    /\ verdict = FriVerificationFailed(FriError(1))
\* Every step succeeded.
C13_WitnessOk == ver_pc = "done" /\ verdict = Ok /\ Len(ver.evaluations) > 0

ClaimedOrder ==
    <<"draw_deep_point", "read_ood_evaluation_frame", "read_ood_evaluations",
      "draw_query_positions", "read_trace_states", "read_constraint_evaluations",
      "draw_composition_coefficients", "fri_verify">>
ListedCalls ==
    SelectSeq(calls, LAMBDA op : \E k \in 1..Len(ClaimedOrder) : ClaimedOrder[k] = op)
Called(op) == \E k \in 1..Len(calls) : calls[k] = op
\* How many operations are performed when the first failure is at this verdict.
StepsUntil(result) ==
    IF result = InconsistentOodConstraintEvaluations THEN 3
    ELSE IF result = TraceQueryDoesNotMatchCommitment THEN 5
    ELSE IF result = ConstraintQueryDoesNotMatchCommitment THEN 6
    ELSE 8

\* C15: the operations on the channel happen in the order draw_deep_point,
\* read_ood_evaluation_frame, read_ood_evaluations, draw_query_positions,
\* read_trace_states, read_constraint_evaluations,
\* draw_composition_coefficients, fri::verify; after a failing step none is
\* performed; fri::verify runs at most once, after the OOD check and both
\* reads succeeded.
C15_StepsInOrderAndShortCircuit ==
    /\ ListedCalls = SubSeq(ClaimedOrder, 1, Len(ListedCalls))
    /\ verdict # NoResult => Len(ListedCalls) = StepsUntil(verdict)
    /\ (OodCheckDone /\ ~OodPasses) => ~Called("draw_query_positions")
    /\ Cardinality({k \in 1..Len(calls) : calls[k] = "fri_verify"}) <= 1
    /\ Called("fri_verify") =>
          (OodPasses /\ channel.trace_read = Ok /\ channel.constraint_read = Ok)
\* The OOD check failed: three operations and no more.
C15_Witness ==
    /\ verdict = InconsistentOodConstraintEvaluations
    /\ ver_pc = "done"
    /\ ListedCalls = SubSeq(ClaimedOrder, 1, 3)
\* A run through all eight operations.
C15_WitnessAllSteps == ListedCalls = ClaimedOrder /\ ver_pc = "done"

\* The point x of the LDE domain at the k-th query position.
QueryPoint(k) ==
    E_from(FMul(channel.air.domain_offset,
                FExp(channel.air.g_lde, channel.query_positions[k])))
\* (T_i(x) - at) / (x - point), weighted.
DeepQuotient(k, i, at, point, weight) ==
    EMul(weight,
         EDiv(ESub(E_from(channel.trace_states[k][i]), at), ESub(QueryPoint(k), point)))
\* trace_comp(x) from register i on.
RECURSIVE TraceComposition(_, _)
TraceComposition(k, i) ==
    IF i > Len(channel.trace_states[k]) THEN E_ZERO
    ELSE LET c == channel.coefficients.trace[i]
             next_z == EMul(channel.z, E_from(channel.air.trace_domain_generator))
             t1 == DeepQuotient(k, i, channel.ood_frame.current[i], channel.z, c[1])
             t2 == DeepQuotient(k, i, channel.ood_frame.next[i], next_z, c[2])
             t3 == IF channel.air.field_extension
                   THEN DeepQuotient(k, i, conjugate(channel.ood_frame.current[i]),
                                     conjugate(channel.z), c[3])
                   ELSE E_ZERO
         IN  EAdd(EAdd(EAdd(t1, t2), t3), TraceComposition(k, i + 1))
ConstraintComposition(k) ==
    compose_constraints(channel.constraint_evaluations,
        [q \in 1..Len(channel.query_positions) |->
            FMul(channel.air.domain_offset,
                 FExp(channel.air.g_lde, channel.query_positions[q]))],
        channel.z, channel.ood_evaluations, channel.coefficients)[k]
DeepEvaluation(k) ==
    EMul(EAdd(TraceComposition(k, 1), ConstraintComposition(k)),
         EAdd(channel.coefficients.degree[1],
              EMul(QueryPoint(k), channel.coefficients.degree[2])))

\* C16: what is handed to fri::verify holds one evaluation per query, in the
\* order of the query positions, each (trace_comp(x) + constraint_comp(x)) *
\* (d0 + x * d1) at x = domain_offset * g_lde^p, with the conjugate term in
\* trace_comp exactly when the AIR declares a field extension.
C16_DeepComposition ==
    Called("fri_verify") =>
        /\ Len(ver.evaluations) = Len(channel.query_positions)
        /\ \A k \in 1..Len(channel.query_positions) :
              ver.evaluations[k] = DeepEvaluation(k)
\* Two queries at different positions, over the extension field.
C16_Witness ==
    /\ Called("fri_verify")
    /\ channel.air.field_extension
    /\ channel.z[2] # 0
    /\ Len(ver.evaluations) = 2
    /\ channel.query_positions[1] # channel.query_positions[2]
    /\ ver.evaluations[1] # ver.evaluations[2]
\* Without a field extension.
C16_WitnessBaseField ==
    /\ Called("fri_verify")
    /\ ~channel.air.field_extension
    /\ Len(ver.evaluations) = 2

\* --------------------------------------------------------- specifications
\* The FRI proof: built, altered on the wire, parsed.
InitFri == FriInit /\ DivOff /\ TblOff /\ VerOff
SpecFri == InitFri /\ [][FriNext]_vars

\* The divisor functions on drawn arguments.
InitDiv == DivInit /\ FriInit /\ TblOff /\ VerOff
SpecDiv == InitDiv /\ [][DivNext]_vars

\* The table of a sequential build.
InitTable == TblInit /\ FriInit /\ DivOff /\ VerOff
SpecTable == InitTable /\ [][TableNext]_vars

\* The table of a concurrent build and its fragments.
InitFragments == TblInit /\ FriInit /\ DivOff /\ VerOff
SpecFragments == InitFragments /\ [][FragmentNext]_vars

\* One run of perform_verification on a drawn channel.
InitVer == VerInit /\ FriInit /\ DivOff /\ TblOff
SpecVer == InitVer /\ [][VerNext]_vars

\* The divisor functions of a concurrent build.
InitConcurrent == DivInitConcurrent /\ FriInit /\ TblOff /\ VerOff
SpecConcurrent == InitConcurrent /\ [][DivNext]_vars

\* The table of a concurrent build, filled and consumed.
InitConcurrentTable == TblInit /\ FriInit /\ DivOff /\ VerOff
SpecConcurrentTable == InitConcurrentTable /\ [][ConcurrentTableNext]_vars

\* The divisor functions on the arguments of both builds.
InitInverse == (DivInit \/ DivInitConcurrent) /\ FriInit /\ TblOff /\ VerOff
SpecInverse == InitInverse /\ [][DivNext]_vars

====
